---- MODULE Spec2Model ----
\* A model of the interpolation grid of distance-cartogram-rs (Waldo Tobler's
\* bidimensional regression): Rectangle2D / BBox arithmetic, the NodeSet lattice,
\* the Grid constructor with its two-phase solver, the point interpolator and
\* the layer warper.
\*
\* f64 values are modelled as exact rationals [n, d] in lowest terms with d > 0,
\* extended with the three IEEE special values the code can produce:
\*   NaN = [n |-> 0, d |-> 0],  +inf = [n |-> 1, d |-> 0],  -inf = [n |-> -1, d |-> 0].
\* Rounding of finite results is not modelled (every finite operation is exact);
\* the inputs are chosen so that the one square root of the grid builder is exact.
EXTENDS Integers, Sequences, FiniteSets, TLC

VARIABLES
    source_points,      \* Grid::new argument
    image_points,       \* Grid::new argument
    precision,          \* Grid::new argument
    n_iter,             \* Grid::new argument
    bbox_opt,           \* Grid::new argument: <<>> for None, <<bbox>> for Some(bbox)
    nodes,              \* Grid.nodes : NodeSet  (<<>> while not built)
    interpolated_points,\* Grid.interpolated_points
    mae,                \* Grid.mae
    r_squared,          \* Grid.r_squared
    rmse_interpolated_image,  \* Grid.rmse_interpolated_image (before the sqrt)
    rmse_interpolated_source, \* Grid.rmse_interpolated_source (before the sqrt)
    pc,                 \* position inside Grid::new / "done" / "failed"
    k_iter,             \* outer pass counter _k of Grid::interpolate
    pair_idx,           \* index of the next (src_pt, adj_pt) pair of the pass
    l_sweep,            \* smoothing sweep counter l of Grid::interpolate
    ret,                \* outcome of the last public call
    call                \* a call of a free function of the crate (its arguments)

vars == <<source_points, image_points, precision, n_iter, bbox_opt, nodes,
          interpolated_points, mae, r_squared, rmse_interpolated_image,
          rmse_interpolated_source, pc, k_iter, pair_idx, l_sweep, ret, call>>

-----------------------------------------------------------------------------
\* f64 arithmetic

Sgn(n) == IF n > 0 THEN 1 ELSE IF n < 0 THEN -1 ELSE 0

AbsInt(n) == IF n < 0 THEN -n ELSE n

RECURSIVE Gcd(_, _)
Gcd(a, b) == IF b = 0 THEN a ELSE Gcd(b, a % b)

\* An f64 is a record [n, d]: the value n/d in lowest terms with d > 0, or one
\* of the special values, which have d = 0 (n = 0 is NaN, n = 1 is +inf and
\* n = -1 is -inf).
Special(s) == [n |-> Sgn(s), d |-> 0]

Lowest(n, d, g) == [n |-> n \div g, d |-> d \div g]

\* n/d for d > 0
Norm(n, d) == Lowest(n, d, Gcd(n, d))

\* The f64 with value n/d (d = 0 gives the special values).
Q(n, d) ==
    IF d = 0 THEN Special(n) ELSE IF d < 0 THEN Norm(-n, -d) ELSE Norm(n, d)

NaN == [n |-> 0, d |-> 0]

INFINITY == [n |-> 1, d |-> 0]

NEG_INFINITY == [n |-> -1, d |-> 0]

Zero == [n |-> 0, d |-> 1]

One == [n |-> 1, d |-> 1]

Two == [n |-> 2, d |-> 1]

IsNaN(a) == a.d = 0 /\ a.n = 0

IsFinite(a) == a.d # 0

FNeg(a) == [n |-> -a.n, d |-> a.d]

\* a + b when a or b is special: inf + (-inf) is NaN
AddSpecial(a, b) ==
    IF a.d # 0 THEN b ELSE IF b.d # 0 THEN a ELSE IF a.n = b.n THEN a ELSE NaN

\* a + b for finite a and b, over the least common denominator (g is the gcd
\* of the denominators)
AddFinite(a, b, g) ==
    Norm(a.n * (b.d \div g) + b.n * (a.d \div g), (a.d \div g) * b.d)

FAdd(a, b) ==
    IF a.d = 0 \/ b.d = 0 THEN AddSpecial(a, b) ELSE AddFinite(a, b, Gcd(a.d, b.d))

FSub(a, b) == FAdd(a, FNeg(b))

\* a * b for finite a and b, the common factors g1 = gcd(a.n, b.d) and
\* g2 = gcd(b.n, a.d) removed before the products are formed
MulFinite(a, b, g1, g2) ==
    [n |-> (a.n \div g1) * (b.n \div g2), d |-> (a.d \div g2) * (b.d \div g1)]

\* 0 * inf is NaN
FMul(a, b) ==
    IF a.d = 0 \/ b.d = 0 THEN Special(a.n * b.n)
    ELSE MulFinite(a, b, Gcd(a.n, b.d), Gcd(b.n, a.d))

\* 1 / b for finite b # 0
Recip(b) == IF b.n < 0 THEN [n |-> -b.d, d |-> -b.n] ELSE [n |-> b.d, d |-> b.n]

\* a / b when a or b is special or b is zero: x / 0 is an infinity of the sign
\* of x, 0 / 0 and inf / inf are NaN, x / inf is 0
DivSpecial(a, b) ==
    IF a.d = 0 /\ b.d # 0 /\ b.n # 0 THEN Special(a.n * b.n)
    ELSE IF a.d # 0 /\ b.d = 0 /\ b.n # 0 THEN Zero
    ELSE Special(a.n * b.d)

FDiv(a, b) ==
    IF a.d = 0 \/ b.d = 0 \/ b.n = 0 THEN DivSpecial(a, b) ELSE FMul(a, Recip(b))

FAbs(a) == [n |-> AbsInt(a.n), d |-> a.d]

\* an/ad < bn/bd for ad, bd > 0, by integer parts and then the reciprocals of
\* the fractional parts, so that no product is formed.
RECURSIVE FracLt(_, _, _, _)
FracLt(an, ad, bn, bd) ==
    LET qa == an \div ad
        qb == bn \div bd
        ra == an % ad
        rb == bn % bd
    IN  IF qa # qb THEN qa < qb
        ELSE IF rb = 0 THEN FALSE
        ELSE IF ra = 0 THEN TRUE
        ELSE FracLt(bd, rb, ad, ra)

\* a < b on f64: every comparison with NaN is false.
FLt(a, b) ==
    IF IsNaN(a) \/ IsNaN(b) THEN FALSE
    ELSE IF a.d = 0 /\ b.d = 0 THEN a.n < b.n
    ELSE IF a.d = 0 THEN a.n < 0
    ELSE IF b.d = 0 THEN b.n > 0
    ELSE FracLt(a.n, a.d, b.n, b.d)

FGt(a, b) == FLt(b, a)

\* a == b on f64: NaN is equal to nothing.
FEq(a, b) == ~IsNaN(a) /\ ~IsNaN(b) /\ a = b

FLe(a, b) == FLt(a, b) \/ FEq(a, b)

FGe(a, b) == FLe(b, a)

\* f64::max: the other operand when one is NaN.
FMax(a, b) == IF IsNaN(a) THEN b ELSE IF IsNaN(b) THEN a ELSE IF FLt(a, b) THEN b ELSE a

\* f64::floor / f64::ceil of a finite value, as an integer.
FloorInt(a) == a.n \div a.d

CeilInt(a) == -((-a.n) \div a.d)

\* `x as usize` for x = floor(..) or ceil(..): saturating, NaN and negatives
\* give 0 (the callers below pass finite or NaN values only).
FloorUsize(a) == IF a.d = 0 THEN 0 ELSE IF FloorInt(a) < 0 THEN 0 ELSE FloorInt(a)

CeilUsize(a) == IF a.d = 0 THEN 0 ELSE IF CeilInt(a) < 0 THEN 0 ELSE CeilInt(a)

\* `n as f64`
FromInt(n) == [n |-> n, d |-> 1]

IsSquareInt(n) == \E s \in 0..n : s * s = n

SqrtInt(n) == CHOOSE s \in 0..n : s * s = n

\* The inputs on which f64::sqrt is exact (a square of a rational).
HasExactSqrt(a) == a.d # 0 /\ a.n >= 0 /\ IsSquareInt(a.n) /\ IsSquareInt(a.d)

\* f64::sqrt, on NaN, negative values and exact squares.
FSqrt(a) ==
    IF IsNaN(a) \/ a.n < 0 THEN NaN
    ELSE IF a.d = 0 THEN INFINITY
    ELSE [n |-> SqrtInt(a.n), d |-> SqrtInt(a.d)]

\* x.sqrt() < c for c > 0: the square root is monotone, so this is x < c*c for
\* x >= 0, and false for NaN and negative x (whose root is NaN).
SqrtLt(x, c) == ~IsNaN(x) /\ x.n >= 0 /\ FLt(x, FMul(c, c))

\* x.sqrt() >= 0.: the root of NaN and of a negative value is NaN, every other
\* root is zero or positive.
SqrtGeZero(x) == ~IsNaN(x) /\ x.n >= 0

\* x.sqrt() < 1/D for an integer D > 0, i.e. x.n * D * D < x.d for x >= 0,
\* computed by two integer divisions so that no product is formed.
SqrtLtReciprocal(x, D) ==
    ~IsNaN(x) /\ x.d # 0 /\ x.n >= 0 /\ x.n <= ((x.d - 1) \div D) \div D

Coord(x, y) == [x |-> x, y |-> y]

\* v = v holds of every value. As a guard of a loop's step it has the value v
\* that the loop carries computed before the step takes it on.
Evaluated(v) == v = v

\* Coord with integer or half-integer components given in halves.
Pt(hx, hy) == Coord(Q(hx, 2), Q(hy, 2))

-----------------------------------------------------------------------------
\* bbox.rs

BBoxNew(xmin, ymin, xmax, ymax) == [xmin |-> xmin, ymin |-> ymin, xmax |-> xmax, ymax |-> ymax]

\* A containment test that is open to the east (no `point.x <= xmax`).
contains_open_east(bb, point) ==
    /\ FGe(point.x, bb.xmin)
    /\ FGe(point.y, bb.ymin)
    /\ FLe(point.y, bb.ymax)

contains(bb, point) ==
    /\ FGe(point.x, bb.xmin)
    /\ FLe(point.x, bb.xmax)
    /\ FGe(point.y, bb.ymin)
    /\ FLe(point.y, bb.ymax)

\* A test that takes a bbox that only overlaps self.
contains_bbox_overlapping(self, bb) ==
    /\ FLe(bb.xmin, self.xmax)
    /\ FGe(bb.xmax, self.xmin)
    /\ FLe(bb.ymin, self.ymax)
    /\ FGe(bb.ymax, self.ymin)

contains_bbox(self, bb) ==
    /\ FGe(bb.xmin, self.xmin)
    /\ FLe(bb.xmax, self.xmax)
    /\ FGe(bb.ymin, self.ymin)
    /\ FLe(bb.ymax, self.ymax)

-----------------------------------------------------------------------------
\* rectangle.rs

\* Rectangle2D::new(x, y, height, width)
Rectangle2DNew(x, y, height, width) == [x |-> x, y |-> y, height |-> height, width |-> width]

\* The first `if` of add: a rectangle of NaN extent restarts at pt.
AddToEmpty(self, pt) ==
    IF IsNaN(self.width) \/ IsNaN(self.height)
    THEN [x |-> pt.x, y |-> pt.y, height |-> Zero, width |-> Zero]
    ELSE self

\* An add that moves the origin to the left without growing the width.
AddX_keeping_width(self, pt) ==
    IF FLt(pt.x, self.x)
    THEN [self EXCEPT !.x = pt.x]
    ELSE IF FGt(pt.x, FAdd(self.x, self.width))
    THEN [self EXCEPT !.width = FSub(pt.x, self.x)]
    ELSE self

\* The second `if` of add: x and width.
AddX(self, pt) ==
    IF FLt(pt.x, self.x)
    THEN [self EXCEPT !.width = FAdd(self.width, FSub(self.x, pt.x)), !.x = pt.x]
    ELSE IF FGt(pt.x, FAdd(self.x, self.width))
    THEN [self EXCEPT !.width = FSub(pt.x, self.x)]
    ELSE self

\* The third `if` of add: y and height.
AddY(self, pt) ==
    IF FLt(pt.y, self.y)
    THEN [self EXCEPT !.height = FAdd(self.height, FSub(self.y, pt.y)), !.y = pt.y]
    ELSE IF FGt(pt.y, FAdd(self.y, self.height))
    THEN [self EXCEPT !.height = FSub(pt.y, self.y)]
    ELSE self

add(self, pt) == AddY(AddX(AddToEmpty(self, pt), pt), pt)

\* `for pt in points { rect.add(pt) }` over points[lo..hi] in order: the first
\* half of the range, then the second half on the rectangle the first leaves.
RECURSIVE AddRange(_, _, _, _)
AddRange(rect, points, lo, hi) ==
    IF lo > hi \/ ~Evaluated(rect) THEN rect
    ELSE IF lo = hi THEN add(rect, points[lo])
    ELSE AddRange(AddRange(rect, points, lo, (lo + hi) \div 2),
                  points, (lo + hi) \div 2 + 1, hi)

\* `for pt in points { rect.add(pt) }`, from points[from] on
AddAll(rect, points, from) == AddRange(rect, points, from, Len(points))

set_rect_from_center(self, center, corner) ==
    [x      |-> FSub(center.x, FAbs(FSub(corner.x, center.x))),
     y      |-> FSub(center.y, FAbs(FSub(corner.y, center.y))),
     width  |-> FMul(FAbs(FSub(corner.x, center.x)), Two),
     height |-> FMul(FAbs(FSub(corner.y, center.y)), Two)]

center_x(self) == FAdd(self.x, FDiv(self.width, Two))

center_y(self) == FAdd(self.y, FDiv(self.height, Two))

min_x(self) == self.x

max_x(self) == FAdd(self.x, self.width)

min_y(self) == self.y

max_y(self) == FAdd(self.y, self.height)

new_empty == Rectangle2DNew(NaN, NaN, NaN, NaN)

from_points(points) ==
    IF Len(points) = 0 THEN Rectangle2DNew(Zero, Zero, Zero, Zero)
    ELSE AddAll(Rectangle2DNew(points[1].x, points[1].y, Zero, Zero), points, 2)

from_bbox(bb) ==
    [x |-> bb.xmin, y |-> bb.ymin,
     width |-> FSub(bb.xmax, bb.xmin), height |-> FSub(bb.ymax, bb.ymin)]

as_bbox(self) ==
    [xmin |-> self.x, xmax |-> FAdd(self.x, self.width),
     ymin |-> self.y, ymax |-> FAdd(self.y, self.height)]

-----------------------------------------------------------------------------
\* node.rs

NodeNew(i, j, source) ==
    [i |-> i, j |-> j, source |-> source, interp |-> source, weight |-> Zero]

\* A zone that takes a supplied bbox as it is (not grown by the points).
InitialZone_bbox_as_given(points, bbox) ==
    IF bbox = <<>> THEN from_points(points) ELSE from_bbox(bbox[1])

\* The zone before sizing: the points' rectangle, or the bbox grown by the points.
InitialZone(points, bbox) ==
    IF bbox = <<>> THEN from_points(points)
    ELSE AddAll(from_bbox(bbox[1]), points, 1)

\* resolution = 1. / precision * (zone.width() * zone.height() / len).sqrt()
Resolution(zone, prec, len) ==
    FMul(FDiv(One, prec), FSqrt(FDiv(FMul(zone.width, zone.height), FromInt(len))))

\* A sizing without the extra column / row: ceil(extent / resolution)
SizeBeforeCentering_unpadded(extent, resolution) == CeilUsize(FDiv(extent, resolution))

\* `width` / `height` before the re-centering: ceil(extent / resolution) + 1
SizeBeforeCentering(extent, resolution) == CeilUsize(FDiv(extent, resolution)) + 1

\* The corner the zone is re-centered on: (min_x - dx / 2, min_y - dy / 2) for
\* dx = width * resolution - zone.width and dy likewise.
CenteringCorner(zone, resolution, width0, height0) ==
    Coord(FSub(min_x(zone),
               FDiv(FSub(FMul(FromInt(width0), resolution), zone.width), Two)),
          FSub(min_y(zone),
               FDiv(FSub(FMul(FromInt(height0), resolution), zone.height), Two)))

\* The re-centered zone.
CenteredZone(zone, resolution, width0, height0) ==
    set_rect_from_center(zone, Coord(center_x(zone), center_y(zone)),
                         CenteringCorner(zone, resolution, width0, height0))

\* Node counts left as they are before the re-centering.
FinalSize_not_incremented(size0) == size0

\* The final node counts: `width += 1; height += 1;`
FinalSize(size0) == size0 + 1

\* A node loop that lays row 0 on the bottom edge of the zone.
Lattice_bottom_up(zone, resolution, width, height) ==
    [nodes |-> [n \in 1..(width * height) |->
                  NodeNew((n - 1) \div width, (n - 1) % width,
                      Coord(FAdd(min_x(zone), FMul(FromInt((n - 1) % width), resolution)),
                            FAdd(min_y(zone), FMul(FromInt((n - 1) \div width), resolution))))],
     zone       |-> zone,
     resolution |-> resolution,
     width      |-> width,
     height     |-> height]

\* The node loop and the struct literal that end NodeSet::new.
Lattice(zone, resolution, width, height) ==
    [nodes |-> [n \in 1..(width * height) |->
                  LET i == (n - 1) \div width
                      j == (n - 1) % width
                  IN  NodeNew(i, j,
                          Coord(FAdd(min_x(zone), FMul(FromInt(j), resolution)),
                                FSub(max_y(zone), FMul(FromInt(i), resolution))))],
     zone       |-> zone,
     resolution |-> resolution,
     width      |-> width,
     height     |-> height]

\* NodeSet::new from the sizing on: the re-centering, the final counts, the
\* node loop.
SizedNodeSet(zone, resolution, width0, height0) ==
    Lattice(CenteredZone(zone, resolution, width0, height0), resolution,
            FinalSize(width0), FinalSize(height0))

\* NodeSet::new from the resolution on.
ResolvedNodeSet(zone, resolution) ==
    SizedNodeSet(zone, resolution,
                 SizeBeforeCentering(zone.width, resolution),
                 SizeBeforeCentering(zone.height, resolution))

\* NodeSet::new from the zone on.
ZonedNodeSet(zone, prec, len) == ResolvedNodeSet(zone, Resolution(zone, prec, len))

NodeSetNew(points, prec, bbox) ==
    ZonedNodeSet(InitialZone(points, bbox), prec, Len(points))

is_in_grid(self, i, j) == i < self.height /\ j < self.width /\ i >= 0 /\ j >= 0

\* Whether `self.nodes[i * self.width + j]` is inside the vector (else the
\* indexing panics).
IndexOk(self, i, j) == i * self.width + j < Len(self.nodes)

get_node(self, i, j) == self.nodes[i * self.width + j + 1]

get_i(self, p) == FloorUsize(FDiv(FSub(max_y(self.zone), p.y), self.resolution))

\* A column lookup that rounds up.
get_j_rounded_up(self, p) == CeilUsize(FDiv(FSub(p.x, min_x(self.zone)), self.resolution))

get_j(self, p) == FloorUsize(FDiv(FSub(p.x, min_x(self.zone)), self.resolution))

\* The (i, j) pairs of the four corners of cell (i, j), in the order
\* get_adjacent_nodes / update_adjacent_node index them.
CellCorners(i, j) == << <<i, j>>, <<i, j + 1>>, <<i + 1, j>>, <<i + 1, j + 1>> >>

AdjacentIndices(self, point) == CellCorners(get_i(self, point), get_j(self, point))

\* The nodes at four (i, j) pairs.
NodesAt(self, a) == [k \in 1..4 |-> get_node(self, a[k][1], a[k][2])]

get_adjacent_nodes(self, point) == NodesAt(self, AdjacentIndices(self, point))

\* `n.weight += value` on the node at (i, j)
AddWeight(self, ij, value) ==
    [self EXCEPT !.nodes[ij[1] * self.width + ij[2] + 1].weight = FAdd(@, value)]

\* A seeding that leaves out the last corner.
AddWeights_of_three_corners(self, a, value) ==
    AddWeight(AddWeight(AddWeight(self, a[1], value), a[2], value), a[3], value)

\* The four `weight += value` of set_weight_adjacent_nodes, on the corners a.
AddWeights(self, a, value) ==
    AddWeight(AddWeight(AddWeight(AddWeight(self, a[1], value), a[2], value),
                        a[3], value),
              a[4], value)

\* set_weight_adjacent_nodes(point, value); the caller checks the four indexes
set_weight_adjacent_nodes(self, point, value) ==
    AddWeights(self, AdjacentIndices(self, point), value)

\* An index choice that takes the corners column by column.
UpdatedIndex_by_columns(k, gi, gj) ==
    IF k - 1 = 0 THEN <<gi, gj>>
    ELSE IF k - 1 = 1 THEN <<gi + 1, gj>>
    ELSE IF k - 1 = 2 THEN <<gi, gj + 1>>
    ELSE <<gi + 1, gj + 1>>

\* The `if i == 0 .. else` of update_adjacent_node, for i = k - 1 and
\* (gi, gj) = (get_i(point), get_j(point)).
UpdatedIndex(k, gi, gj) ==
    IF k - 1 = 0 THEN <<gi, gj>>
    ELSE IF k - 1 = 1 THEN <<gi, gj + 1>>
    ELSE IF k - 1 = 2 THEN <<gi + 1, gj>>
    ELSE <<gi + 1, gj + 1>>

\* f(node) for the closure of Grid::interpolate:
\* |node| { node.interp.x += adj.x; node.interp.y += adj.y }
AdjustNode(self, ij, adj) ==
    [self EXCEPT !.nodes[ij[1] * self.width + ij[2] + 1].interp =
        Coord(FAdd(@.x, adj.x), FAdd(@.y, adj.y))]

\* update_adjacent_node(point, i, f) with i = k - 1 and the closure above
update_adjacent_node(self, point, k, adj) ==
    AdjustNode(self, UpdatedIndex(k, get_i(self, point), get_j(self, point)), adj)

Sum4(a, b, c, d) == FAdd(FAdd(FAdd(a, b), c), d)

\* A kernel that averages the four nearest neighbours.
Stencil_of_nearest(pa, pb, pc_, pd, pe, pf, pg, ph, pi, pj, pk, pl) ==
    FDiv(Sum4(pa, pb, pc_, pd), FromInt(4))

\* The 12-neighbour stencil of get_smoothed, one component.
Stencil(pa, pb, pc_, pd, pe, pf, pg, ph, pi, pj, pk, pl) ==
    FDiv(FSub(FSub(FMul(FromInt(8), Sum4(pa, pb, pc_, pd)),
                   FMul(Two, Sum4(pe, pf, pg, ph))),
              Sum4(pi, pj, pk, pl)),
         FromInt(20))

\* `sx += n.x; sy += n.y; nb += 1;` of the `else` branch of get_smoothed
AddNeighbour(acc, n) ==
    [nb |-> acc.nb + 1, sx |-> FAdd(acc.sx, n.x), sy |-> FAdd(acc.sy, n.y)]

\* `if i > 0 { .. } else { sy += self.resolution * scale_y; }`
AddNorth(self, i, j, scale_y, acc) ==
    IF i > 0 THEN AddNeighbour(acc, get_node(self, i - 1, j).interp)
    ELSE [acc EXCEPT !.sy = FAdd(@, FMul(self.resolution, scale_y))]

\* A west edge whose phantom displacement is added.
AddWest_phantom_added(self, i, j, scale_x, acc) ==
    IF j > 0 THEN AddNeighbour(acc, get_node(self, i, j - 1).interp)
    ELSE [acc EXCEPT !.sx = FAdd(@, FMul(self.resolution, scale_x))]

\* `if j > 0 { .. } else { sx -= self.resolution * scale_x; }`
AddWest(self, i, j, scale_x, acc) ==
    IF j > 0 THEN AddNeighbour(acc, get_node(self, i, j - 1).interp)
    ELSE [acc EXCEPT !.sx = FSub(@, FMul(self.resolution, scale_x))]

\* `if i < self.height - 1 { .. } else { sy -= self.resolution * scale_y; }`
AddSouth(self, i, j, scale_y, acc) ==
    IF i < self.height - 1 THEN AddNeighbour(acc, get_node(self, i + 1, j).interp)
    ELSE [acc EXCEPT !.sy = FSub(@, FMul(self.resolution, scale_y))]

\* `if j < self.width - 1 { .. } else { sx += self.resolution * scale_x; }`
AddEast(self, i, j, scale_x, acc) ==
    IF j < self.width - 1 THEN AddNeighbour(acc, get_node(self, i, j + 1).interp)
    ELSE [acc EXCEPT !.sx = FAdd(@, FMul(self.resolution, scale_x))]

\* Coord { x: sx / nb as f64, y: sy / nb as f64 }
MeanOf(acc) == Coord(FDiv(acc.sx, FromInt(acc.nb)), FDiv(acc.sy, FromInt(acc.nb)))

\* The `else` branch of get_smoothed: the 4-connected neighbours that exist and
\* a phantom displacement for each missing one.
SmoothedEdge(self, i, j, scale_x, scale_y) ==
    MeanOf(AddEast(self, i, j, scale_x,
               AddSouth(self, i, j, scale_y,
                   AddWest(self, i, j, scale_x,
                       AddNorth(self, i, j, scale_y,
                           [nb |-> 0, sx |-> Zero, sy |-> Zero])))))

\* The condition of get_smoothed's first branch.
InteriorCase(self, i, j) == i > 1 /\ j > 1 /\ i < self.height - 2 /\ j < self.width - 2

\* The (i, j) of the get_node calls of get_smoothed(i, j, ..): the twelve of
\* the first branch, or those under the four conditions of the second.
SmoothedReads(self, i, j) ==
    IF InteriorCase(self, i, j)
    THEN { <<i - 1, j>>, <<i + 1, j>>, <<i, j - 1>>, <<i, j + 1>>,
           <<i - 1, j - 1>>, <<i + 1, j - 1>>, <<i + 1, j + 1>>, <<i - 1, j + 1>>,
           <<i - 2, j>>, <<i + 2, j>>, <<i, j - 2>>, <<i, j + 2>> }
    ELSE { r \in { <<i - 1, j>> } : i > 0 }
         \cup { r \in { <<i, j - 1>> } : j > 0 }
         \cup { r \in { <<i + 1, j>> } : i < self.height - 1 }
         \cup { r \in { <<i, j + 1>> } : j < self.width - 1 }

get_smoothed(self, i, j, scale_x, scale_y) ==
    IF i > 1 /\ j > 1 /\ i < self.height - 2 /\ j < self.width - 2
    THEN LET pa == get_node(self, i - 1, j).interp
             pb == get_node(self, i + 1, j).interp
             pc_ == get_node(self, i, j - 1).interp
             pd == get_node(self, i, j + 1).interp
             pe == get_node(self, i - 1, j - 1).interp
             pf == get_node(self, i + 1, j - 1).interp
             pg == get_node(self, i + 1, j + 1).interp
             ph == get_node(self, i - 1, j + 1).interp
             pi == get_node(self, i - 2, j).interp
             pj == get_node(self, i + 2, j).interp
             pk == get_node(self, i, j - 2).interp
             pl == get_node(self, i, j + 2).interp
         IN  Coord(Stencil(pa.x, pb.x, pc_.x, pd.x, pe.x, pf.x, pg.x, ph.x, pi.x, pj.x, pk.x, pl.x),
                   Stencil(pa.y, pb.y, pc_.y, pd.y, pe.y, pf.y, pg.y, ph.y, pi.y, pj.y, pk.y, pl.y))
    ELSE SmoothedEdge(self, i, j, scale_x, scale_y)

-----------------------------------------------------------------------------
\* utils.rs

distance_sq(p1, p2) ==
    FAdd(FMul(FSub(p1.x, p2.x), FSub(p1.x, p2.x)), FMul(FSub(p1.y, p2.y), FSub(p1.y, p2.y)))

\* acc + f[lo] + .. + f[hi], added in this order: the first half of the range,
\* then the second half on the sum the first leaves.
RECURSIVE SumRange(_, _, _, _)
SumRange(f, acc, lo, hi) ==
    IF lo > hi \/ ~Evaluated(acc) THEN acc
    ELSE IF lo = hi THEN FAdd(acc, f[lo])
    ELSE SumRange(f, SumRange(f, acc, lo, (lo + hi) \div 2), (lo + hi) \div 2 + 1, hi)

\* 0. + f[1] + .. + f[n]
SumF(f, n) == SumRange(f, Zero, 1, n)

\* utils::rmse before its three square roots: the mean squared errors whose
\* roots are rmse, rmse_x and rmse_y.
utils_rmse_sq(points1, points2) ==
    LET n  == Len(points1)
        nf == FromInt(n)
        sum_sq_error_x == SumF([i \in 1..n |-> FMul(FSub(points1[i].x, points2[i].x),
                                                    FSub(points1[i].x, points2[i].x))], n)
        sum_sq_error_y == SumF([i \in 1..n |-> FMul(FSub(points1[i].y, points2[i].y),
                                                    FSub(points1[i].y, points2[i].y))], n)
    IN  [rmse   |-> FDiv(FAdd(sum_sq_error_x, sum_sq_error_y), nf),
         rmse_x |-> FDiv(sum_sq_error_x, nf),
         rmse_y |-> FDiv(sum_sq_error_y, nf)]

utils_mae(image, interpolated) ==
    LET n == Len(image)
    IN  FDiv(SumF([i \in 1..n |-> FAdd(FAbs(FSub(image[i].x, interpolated[i].x)),
                                       FAbs(FSub(image[i].y, interpolated[i].y)))], n),
             FromInt(n))

utils_r_squared(image, interpolated) ==
    LET n      == Len(image)
        mean_x == FDiv(SumF([i \in 1..n |-> image[i].x], n), FromInt(n))
        mean_y == FDiv(SumF([i \in 1..n |-> image[i].y], n), FromInt(n))
        ss_residual == SumF([i \in 1..n |-> distance_sq(image[i], interpolated[i])], n)
        ss_total    == SumF([i \in 1..n |-> distance_sq(image[i], Coord(mean_x, mean_y))], n)
    IN  FSub(One, FDiv(ss_residual, ss_total))

-----------------------------------------------------------------------------
\* grid.rs: the solver (Grid::interpolate)

\* rect / rect_adj of Grid::interpolate: Rectangle2D::new(0., 0., -1., -1.) and
\* then add() of every point.
ScaleRect(points) ==
    AddAll(Rectangle2DNew(Zero, Zero, FromInt(-1), FromInt(-1)), points, 1)

scale_x(points, image) == FDiv(ScaleRect(image).width, ScaleRect(points).width)

scale_y(points, image) == FDiv(ScaleRect(image).height, ScaleRect(points).height)

\* t * (to - from) + from
Lerp(t, from, to) == FAdd(FMul(t, FSub(to, from)), from)

\* hx and hy from tx = ux1 / resolution and ty = vy1 / resolution:
\* hx1 and hx2 along x on the two rows, then hx along y from hx2 to hx1.
BilinearAt(adj_nodes, tx, ty) ==
    Coord(Lerp(ty, Lerp(tx, adj_nodes[3].interp.x, adj_nodes[4].interp.x),
                   Lerp(tx, adj_nodes[1].interp.x, adj_nodes[2].interp.x)),
          Lerp(ty, Lerp(tx, adj_nodes[3].interp.y, adj_nodes[4].interp.y),
                   Lerp(tx, adj_nodes[1].interp.y, adj_nodes[2].interp.y)))

\* The bilinear stencil of Grid::interpolate and of Grid::_get_interp_point,
\* on the four adjacent nodes in their order.
Bilinear(adj_nodes, resolution, p) ==
    BilinearAt(adj_nodes,
               FDiv(FSub(p.x, adj_nodes[1].source.x), resolution),
               FDiv(FSub(p.y, adj_nodes[3].source.y), resolution))

\* adj_x (adj_y) of one corner:
\* u * v * ((dx - qx[i] + sqx) * w[i] + delta_zx[i] * (w[i] * w[i] - sw)) / weight
Adjustment(uv, d, q, sq, w, delta_z, sw, weight) ==
    FDiv(FMul(uv, FAdd(FMul(FAdd(FSub(d, q), sq), w),
                       FMul(delta_z, FSub(FMul(w, w), sw)))),
         weight)

\* The second `for i in 0..4` of the pair loop's body.
SummedAdjustments(adj_nodes, w, delta_zx, delta_zy, uv, dx, dy, sw, qx, qy, sqx, sqy) ==
    [k \in 1..4 |->
        Coord(Adjustment(uv, dx, qx[k], sqx, w[k], delta_zx[k], sw, adj_nodes[k].weight),
              Adjustment(uv, dy, qy[k], sqy, w[k], delta_zy[k], sw, adj_nodes[k].weight))]

\* sqx and sqy of the first `for i in 0..4`.
WeightedAdjustments(adj_nodes, w, delta_zx, delta_zy, uv, dx, dy, sw, qx, qy) ==
    SummedAdjustments(adj_nodes, w, delta_zx, delta_zy, uv, dx, dy, sw, qx, qy,
                      SumF(qx, 4), SumF(qy, 4))

\* The end of the pair loop's body: sw, qx, qy, sqx, sqy and the four corner
\* adjustments (adj_x, adj_y), from the weights w, the differences delta_zx and
\* delta_zy to the smoothed positions, uv = u * v and the scaled residual
\* (dx, dy).
CornerAdjustments(adj_nodes, w, delta_zx, delta_zy, uv, dx, dy) ==
    WeightedAdjustments(adj_nodes, w, delta_zx, delta_zy, uv, dx, dy,
                        SumF([k \in 1..4 |-> FMul(w[k], w[k])], 4),
                        [k \in 1..4 |-> FMul(w[k], delta_zx[k])],
                        [k \in 1..4 |-> FMul(w[k], delta_zy[k])])

\* u = 1. / (ux1 * ux1 + ux2 * ux2), and v likewise
InverseSquares(a1, a2) == FDiv(One, FAdd(FMul(a1, a1), FMul(a2, a2)))

\* A residual scaled by the resolution once.
ScaledResidual_once(target, h, resolution) == FMul(FSub(target, h), resolution)

\* dx = delta_x * resolution * resolution for delta_x = adj_pt.x - hx
ScaledResidual(target, h, resolution) ==
    FMul(FMul(FSub(target, h), resolution), resolution)

\* The pair loop's body from w, u and v on.
SplitAdjustments(adj_nodes, smoothed_nodes, ux1, ux2, vy1, vy2, dx, dy) ==
    CornerAdjustments(adj_nodes,
        << FMul(vy1, ux2), FMul(vy1, ux1), FMul(vy2, ux2), FMul(vy2, ux1) >>,
        [k \in 1..4 |-> FSub(adj_nodes[k].interp.x, smoothed_nodes[k].x)],
        [k \in 1..4 |-> FSub(adj_nodes[k].interp.y, smoothed_nodes[k].y)],
        FMul(InverseSquares(ux1, ux2), InverseSquares(vy1, vy2)),
        dx, dy)

\* The pair loop's body from ux2 and vy2 on, h = (hx, hy).
OffsetAdjustments(adj_nodes, smoothed_nodes, resolution, ux1, vy1, h, adj_pt) ==
    SplitAdjustments(adj_nodes, smoothed_nodes,
        ux1, FSub(resolution, ux1), vy1, FSub(resolution, vy1),
        ScaledResidual(adj_pt.x, h.x, resolution),
        ScaledResidual(adj_pt.y, h.y, resolution))

\* The body of the pair loop on the four adjacent nodes and their smoothed
\* positions, all read before any adjustment is applied.
PairAdjustments(adj_nodes, smoothed_nodes, resolution, src_pt, adj_pt) ==
    OffsetAdjustments(adj_nodes, smoothed_nodes, resolution,
        FSub(src_pt.x, adj_nodes[1].source.x),
        FSub(src_pt.y, adj_nodes[3].source.y),
        Bilinear(adj_nodes, resolution, src_pt),
        adj_pt)

\* get_smoothed at the four nodes of adj_nodes.
SmoothedNodes(self, adj_nodes, sx, sy) ==
    [k \in 1..4 |-> get_smoothed(self, adj_nodes[k].i, adj_nodes[k].j, sx, sy)]

\* The four update_adjacent_node calls that end the pair loop's body.
ApplyAdjustments(self, src_pt, adj) ==
    update_adjacent_node(
        update_adjacent_node(
            update_adjacent_node(
                update_adjacent_node(self, src_pt, 1, adj[1]),
                src_pt, 2, adj[2]),
            src_pt, 3, adj[3]),
        src_pt, 4, adj[4])

\* The body of `if self.nodes.get_node(i, j).weight == 0.` on node n (node
\* (i, j) of the row-major loops), p its smoothed position: the node moves to
\* p and delta takes the move into account.
SmoothNode(acc, n, p) ==
    [ns    |-> [acc.ns EXCEPT !.nodes[n].interp = p],
     delta |-> FMax(acc.delta,
                    FDiv(distance_sq(acc.ns.nodes[n].interp, p),
                         FromInt(acc.ns.width * acc.ns.height)))]

\* The body of the row-major loops of a sweep on node n.
SweepNode(acc, n, sx, sy) ==
    IF FEq(acc.ns.nodes[n].weight, Zero)
    THEN SmoothNode(acc, n,
             get_smoothed(acc.ns, (n - 1) \div acc.ns.width, (n - 1) % acc.ns.width, sx, sy))
    ELSE acc

\* The row-major loops of a sweep over the nodes lo..hi in order (in place):
\* the first half of the range, then the second half on what the first leaves.
\* acc is [ns |-> the node set, delta |-> the sweep's delta].
RECURSIVE SweepRange(_, _, _, _, _)
SweepRange(acc, lo, hi, sx, sy) ==
    IF lo > hi \/ ~Evaluated(acc) THEN acc
    ELSE IF lo = hi THEN SweepNode(acc, lo, sx, sy)
    ELSE SweepRange(SweepRange(acc, lo, (lo + hi) \div 2, sx, sy),
                    (lo + hi) \div 2 + 1, hi, sx, sy)

\* A sweep that smooths every node from the positions the sweep started with.
Sweep_from_start_positions(self, sx, sy) ==
    [ns    |-> [self EXCEPT !.nodes = [n \in DOMAIN self.nodes |->
                   SweepNode([ns |-> self, delta |-> Zero], n, sx, sy).ns.nodes[n]]],
     delta |-> SweepRange([ns |-> self, delta |-> Zero], 1, self.width * self.height,
                          sx, sy).delta]

\* One smoothing sweep of Phase II: `let mut delta = 0.0f64;` and the loops.
Sweep(self, sx, sy) ==
    SweepRange([ns |-> self, delta |-> Zero], 1, self.width * self.height, sx, sy)

\* The convergence threshold of Phase II: 0.0001
ConvergenceThreshold == Q(1, 10000)

\* A break that is allowed one sweep earlier.
SweepBreaks_from_the_sixth(l, delta) == l > 4 /\ SqrtLt(delta, ConvergenceThreshold)

\* `if l > 5 && delta.sqrt() < 0.0001 { break; }`
SweepBreaks(l, delta) == l > 5 /\ SqrtLt(delta, ConvergenceThreshold)

-----------------------------------------------------------------------------
\* grid.rs: the readers

bbox(self) == as_bbox(self.zone)

\* NodeSet::get_adjacent_nodes_ref: the four adjacent nodes of a point, in the
\* order of get_adjacent_nodes
get_adjacent_nodes_ref(self, point) == NodesAt(self, AdjacentIndices(self, point))

\* Whether the indexings at the four (i, j) pairs stay inside the node vector.
CornersOk(self, a) == \A k \in 1..4 : IndexOk(self, a[k][1], a[k][2])

\* Whether the four indexings of the adjacent-node lookup stay inside the node
\* vector; the lookup panics otherwise.
LookupOk(self, point) == CornersOk(self, AdjacentIndices(self, point))

_get_interp_point(self, src_point) ==
    Bilinear(get_adjacent_nodes_ref(self, src_point), self.resolution, src_point)

\* Result<Coord, Error> of get_interp_point, or the panic of an indexing out
\* of the node vector.
get_interp_point(self, src_point) ==
    IF ~contains(bbox(self), src_point)
    THEN [tag |-> "Err", err |-> "PointNotInBBox", lookups |-> <<>>]
    ELSE IF ~LookupOk(self, src_point)
    THEN [tag |-> "Panic", lookups |-> AdjacentIndices(self, src_point)]
    ELSE [tag |-> "Ok", value |-> _get_interp_point(self, src_point),
          lookups |-> AdjacentIndices(self, src_point)]

\* The node at (i, j) if is_in_grid(i, j), else None (the empty sequence).
NodeAt(self, i, j) == IF is_in_grid(self, i, j) THEN << get_node(self, i, j) >> ELSE <<>>

\* A get_diff whose central differences divide by the resolution, not by twice
\* the resolution.
get_diff_one_cell(self, i, j) ==
    LET n   == NodeAt(self, i, j)
        ny1 == NodeAt(self, i - 1, j)
        ny2 == NodeAt(self, i + 1, j)
        nx1 == NodeAt(self, i, j - 1)
        nx2 == NodeAt(self, i, j + 1)
        r   == self.resolution
        dx  == IF nx1 = <<>>
               THEN << FDiv(FSub(nx2[1].interp.x, n[1].interp.x), r),
                       FDiv(FSub(nx2[1].interp.y, n[1].interp.y), r) >>
               ELSE IF nx2 = <<>>
               THEN << FDiv(FSub(n[1].interp.x, nx1[1].interp.x), r),
                       FDiv(FSub(n[1].interp.y, nx1[1].interp.y), r) >>
               ELSE << FDiv(FSub(nx2[1].interp.x, nx1[1].interp.x), r),
                       FDiv(FSub(nx2[1].interp.y, nx1[1].interp.y), r) >>
        dy  == IF ny1 = <<>>
               THEN << FDiv(FSub(n[1].interp.x, ny2[1].interp.x), r),
                       FDiv(FSub(n[1].interp.y, ny2[1].interp.y), r) >>
               ELSE IF ny2 = <<>>
               THEN << FDiv(FSub(ny1[1].interp.x, n[1].interp.x), r),
                       FDiv(FSub(ny1[1].interp.y, n[1].interp.y), r) >>
               ELSE << FDiv(FSub(ny1[1].interp.x, ny2[1].interp.x), r),
                       FDiv(FSub(ny1[1].interp.y, ny2[1].interp.y), r) >>
    IN  dx \o dy

\* Grid::get_diff: the four finite differences of interp at node (i, j),
\* one-sided on the border and central elsewhere.
get_diff(self, i, j) ==
    LET n   == NodeAt(self, i, j)
        ny1 == NodeAt(self, i - 1, j)
        ny2 == NodeAt(self, i + 1, j)
        nx1 == NodeAt(self, i, j - 1)
        nx2 == NodeAt(self, i, j + 1)
        r   == self.resolution
        dx  == IF nx1 = <<>>
               THEN << FDiv(FSub(nx2[1].interp.x, n[1].interp.x), r),
                       FDiv(FSub(nx2[1].interp.y, n[1].interp.y), r) >>
               ELSE IF nx2 = <<>>
               THEN << FDiv(FSub(n[1].interp.x, nx1[1].interp.x), r),
                       FDiv(FSub(n[1].interp.y, nx1[1].interp.y), r) >>
               ELSE << FDiv(FSub(nx2[1].interp.x, nx1[1].interp.x), FMul(Two, r)),
                       FDiv(FSub(nx2[1].interp.y, nx1[1].interp.y), FMul(Two, r)) >>
        dy  == IF ny1 = <<>>
               THEN << FDiv(FSub(n[1].interp.x, ny2[1].interp.x), r),
                       FDiv(FSub(n[1].interp.y, ny2[1].interp.y), r) >>
               ELSE IF ny2 = <<>>
               THEN << FDiv(FSub(ny1[1].interp.x, n[1].interp.x), r),
                       FDiv(FSub(ny1[1].interp.y, n[1].interp.y), r) >>
               ELSE << FDiv(FSub(ny1[1].interp.x, ny2[1].interp.x), FMul(Two, r)),
                       FDiv(FSub(ny1[1].interp.y, ny2[1].interp.y), FMul(Two, r)) >>
    IN  dx \o dy

\* (diff[0]^2 + diff[1]^2 + diff[2]^2 + diff[3]^2) / 2.: the value whose square
\* root node_deformation_strength(i, j) returns, and the term that
\* sum_squared_deformation_strength adds for node (i, j).
HalfSumOfSquares(diff) == FDiv(SumF([k \in 1..4 |-> FMul(diff[k], diff[k])], 4), Two)

node_deformation_strength_sq(self, i, j) == HalfSumOfSquares(get_diff(self, i, j))

sum_squared_deformation_strength(self) ==
    SumF([n \in 1..(self.width * self.height) |->
            node_deformation_strength_sq(self, (n - 1) \div self.width, (n - 1) % self.width)],
         self.width * self.height)

\* sum_squared_deformation_strength() / (width * height): the value whose
\* square root deformation_strength() returns.
deformation_strength_sq(self) ==
    FDiv(sum_squared_deformation_strength(self), FromInt(self.width * self.height))

-----------------------------------------------------------------------------
\* geo_types::Geometry, as the layer functions match on it

Point(c) == [tag |-> "Point", c |-> c]

MultiPoint(cs) == [tag |-> "MultiPoint", cs |-> cs]

LineString(cs) == [tag |-> "LineString", cs |-> cs]

MultiLineString(ls) == [tag |-> "MultiLineString", ls |-> ls]

\* Coord's derived ==: f64 equality of both components (false on NaN).
CoordEq(a, b) == FEq(a.x, b.x) /\ FEq(a.y, b.y)

\* LineString::close, which Polygon::new applies to every ring: a ring whose
\* first and last coordinates differ gets its first coordinate appended.
CloseRing(ring) ==
    IF ring = <<>> \/ CoordEq(ring[1], ring[Len(ring)]) THEN ring
    ELSE Append(ring, ring[1])

\* geo_types::Polygon::new(exterior, interiors)
PolygonNew(exterior, interiors) ==
    [exterior  |-> CloseRing(exterior),
     interiors |-> [k \in 1..Len(interiors) |-> CloseRing(interiors[k])]]

Polygon(poly) == [tag |-> "Polygon", poly |-> poly]

MultiPolygon(polys) == [tag |-> "MultiPolygon", polys |-> polys]

Triangle(v1, v2, v3) == [tag |-> "Triangle", cs |-> <<v1, v2, v3>>]

\* geo_types::Rect::new(c1, c2): the corners are ordered component-wise.
RectNew(c1, c2) ==
    [tag |-> "Rect",
     min |-> Coord(IF FLt(c1.x, c2.x) THEN c1.x ELSE c2.x,
                   IF FLt(c1.y, c2.y) THEN c1.y ELSE c2.y),
     max |-> Coord(IF FLt(c1.x, c2.x) THEN c2.x ELSE c1.x,
                   IF FLt(c1.y, c2.y) THEN c2.y ELSE c1.y)]

Line(start, end) == [tag |-> "Line", start |-> start, end |-> end]

GeometryCollection(gs) == [tag |-> "GeometryCollection", gs |-> gs]

\* The concatenation of a sequence of sequences.
RECURSIVE Flatten(_)
Flatten(seqs) == IF seqs = <<>> THEN <<>> ELSE Head(seqs) \o Flatten(Tail(seqs))

-----------------------------------------------------------------------------
\* bbox.rs: BBox::from_geometries

\* The closure box_coord: the running box grown by c.
box_coord(bb, c) ==
    [xmin |-> IF FLt(c.x, bb.xmin) THEN c.x ELSE bb.xmin,
     xmax |-> IF FGt(c.x, bb.xmax) THEN c.x ELSE bb.xmax,
     ymin |-> IF FLt(c.y, bb.ymin) THEN c.y ELSE bb.ymin,
     ymax |-> IF FGt(c.y, bb.ymax) THEN c.y ELSE bb.ymax]

\* box_coord on cs[lo..hi] in order: the first half of the range, then the
\* second half on the box the first leaves.
RECURSIVE BoxRange(_, _, _, _)
BoxRange(bb, cs, lo, hi) ==
    IF lo > hi \/ ~Evaluated(bb) THEN bb
    ELSE IF lo = hi THEN box_coord(bb, cs[lo])
    ELSE BoxRange(BoxRange(bb, cs, lo, (lo + hi) \div 2), cs, (lo + hi) \div 2 + 1, hi)

BoxAll(bb, cs) == BoxRange(bb, cs, 1, Len(cs))

RECURSIVE from_geometries(_)

\* The coordinates box_coord is called with for one geometry of the slice, in
\* order: one match arm per variant.
BoxedCoords(f) ==
    CASE f.tag = "Point"           -> << f.c >>
      [] f.tag = "MultiPoint"      -> f.cs
      [] f.tag = "LineString"      -> f.cs
      [] f.tag = "MultiLineString" -> Flatten(f.ls)
      [] f.tag = "Polygon"         -> f.poly.exterior
      [] f.tag = "MultiPolygon"    -> Flatten([k \in 1..Len(f.polys) |-> f.polys[k].exterior])
      [] f.tag = "Triangle"        -> f.cs
      [] f.tag = "Rect"            -> << f.min, f.max >>
      [] f.tag = "Line"            -> << f.start, f.end >>
      [] f.tag = "GeometryCollection" ->
            LET bb == from_geometries(f.gs)
            IN  << Coord(bb.xmin, bb.ymin), Coord(bb.xmax, bb.ymax) >>

from_geometries(geometries) ==
    BoxAll(BBoxNew(INFINITY, INFINITY, NEG_INFINITY, NEG_INFINITY),
           Flatten([k \in 1..Len(geometries) |-> BoxedCoords(geometries[k])]))

-----------------------------------------------------------------------------
\* grid.rs: the layer transformer

\* The coordinates interpolate_geom passes to _get_interp_point, in order.
RECURSIVE VisitedCoords(_)
VisitedCoords(geom) ==
    LET PolyCoords(poly) == poly.exterior \o Flatten(poly.interiors)
    IN  CASE geom.tag = "Point"           -> << geom.c >>
          [] geom.tag = "MultiPoint"      -> geom.cs
          [] geom.tag = "LineString"      -> geom.cs
          [] geom.tag = "MultiLineString" -> Flatten(geom.ls)
          [] geom.tag = "Polygon"         -> PolyCoords(geom.poly)
          [] geom.tag = "MultiPolygon"    ->
                Flatten([k \in 1..Len(geom.polys) |-> PolyCoords(geom.polys[k])])
          [] geom.tag = "GeometryCollection" ->
                Flatten([k \in 1..Len(geom.gs) |-> VisitedCoords(geom.gs[k])])
          [] geom.tag = "Line"            -> << geom.start, geom.end >>
          [] geom.tag = "Triangle"        -> geom.cs
          [] geom.tag = "Rect"            -> << geom.min, geom.max >>

\* The set of the elements of a sequence.
Range(seq) == { seq[k] : k \in 1..Len(seq) }

\* The match of interpolate_geom, one arm per variant, with f[c] the value of
\* self._get_interp_point(c) at each coordinate the arms visit.
RECURSIVE RebuiltGeom(_, _)
RebuiltGeom(f, geom) ==
    LET Ring(cs) == [k \in 1..Len(cs) |-> f[cs[k]]]
        Poly(poly) == PolygonNew(Ring(poly.exterior),
                                 [k \in 1..Len(poly.interiors) |-> Ring(poly.interiors[k])])
    IN  CASE geom.tag = "Point"           -> Point(f[geom.c])
          [] geom.tag = "MultiPoint"      -> MultiPoint(Ring(geom.cs))
          [] geom.tag = "LineString"      -> LineString(Ring(geom.cs))
          [] geom.tag = "MultiLineString" ->
                MultiLineString([k \in 1..Len(geom.ls) |-> Ring(geom.ls[k])])
          [] geom.tag = "Polygon"         -> Polygon(Poly(geom.poly))
          [] geom.tag = "MultiPolygon"    ->
                MultiPolygon([k \in 1..Len(geom.polys) |-> Poly(geom.polys[k])])
          [] geom.tag = "GeometryCollection" ->
                GeometryCollection([k \in 1..Len(geom.gs) |-> RebuiltGeom(f, geom.gs[k])])
          [] geom.tag = "Line"            -> Line(f[geom.start], f[geom.end])
          [] geom.tag = "Triangle"        -> Triangle(f[geom.cs[1]], f[geom.cs[2]], f[geom.cs[3]])
          [] geom.tag = "Rect"            -> RectNew(f[geom.min], f[geom.max])

interpolate_geom(self, geom) ==
    RebuiltGeom([c \in Range(VisitedCoords(geom)) |-> _get_interp_point(self, c)], geom)

\* Result<Vec<Geometry>, Error> of interpolate_layer, or the panic of a node
\* lookup out of the node vector; `applied` lists the coordinates the point
\* interpolator was applied to.
interpolate_layer(self, geometries) ==
    IF ~contains_bbox(bbox(self), from_geometries(geometries))
    THEN [tag |-> "Err", err |-> "GeometriesNotInBBox", applied |-> <<>>]
    ELSE IF \E k \in 1..Len(geometries) :
                \E c \in Range(VisitedCoords(geometries[k])) : ~LookupOk(self, c)
    THEN [tag |-> "Panic",
          applied |-> Flatten([k \in 1..Len(geometries) |-> VisitedCoords(geometries[k])])]
    ELSE [tag |-> "Ok",
          applied |-> Flatten([k \in 1..Len(geometries) |-> VisitedCoords(geometries[k])]),
          value |-> [k \in 1..Len(geometries) |-> interpolate_geom(self, geometries[k])]]

\* The schedules of a parallel iterator over n items: the orders in which the
\* n per-item closures can complete.
Schedules(n) == { o \in [1..n -> 1..n] : \A a, b \in 1..n : o[a] = o[b] => a = b }

\* A parallel map that collects every result as its closure completes.
RECURSIVE ParMapCollect_as_completed(_, _, _, _, _)
ParMapCollect_as_completed(self, geometries, order, k, acc) ==
    IF k > Len(order) THEN acc
    ELSE ParMapCollect_as_completed(self, geometries, order, k + 1,
             [acc EXCEPT ![k] = interpolate_geom(self, geometries[order[k]])])

\* geometries.par_iter().map(|geom| self.interpolate_geom(geom)).collect():
\* the closures complete in the order `order`; the k-th to complete works on
\* item order[k] and the indexed collect stores its result at that index.
RECURSIVE ParMapCollect(_, _, _, _, _)
ParMapCollect(self, geometries, order, k, acc) ==
    IF k > Len(order) THEN acc
    ELSE ParMapCollect(self, geometries, order, k + 1,
             [acc EXCEPT ![order[k]] = interpolate_geom(self, geometries[order[k]])])

\* Result<Vec<Geometry>, Error> of interpolate_layer_par under one schedule, or
\* the panic of a node lookup (propagated from the worker to the caller).
interpolate_layer_par(self, geometries, order) ==
    IF ~contains_bbox(bbox(self), from_geometries(geometries))
    THEN [tag |-> "Err", err |-> "GeometriesNotInBBox", applied |-> <<>>]
    ELSE IF \E k \in 1..Len(geometries) :
                \E c \in Range(VisitedCoords(geometries[k])) : ~LookupOk(self, c)
    THEN [tag |-> "Panic",
          applied |-> Flatten([k \in 1..Len(order) |-> VisitedCoords(geometries[order[k]])])]
    ELSE [tag |-> "Ok",
          applied |-> Flatten([k \in 1..Len(order) |-> VisitedCoords(geometries[order[k]])]),
          value |-> ParMapCollect(self, geometries, order, 1,
                                  [k \in 1..Len(geometries) |-> <<>>])]

\* point_getter of get_grid
point_getter(grid_type, node) == IF grid_type = "Source" THEN node.source ELSE node.interp

\* The loop indices i and j of get_grid at which the c-th polygon is pushed.
CellI(self, c) == (c - 1) \div (self.width - 1)

CellJ(self, c) == (c - 1) % (self.width - 1)

\* point_getter(self.nodes.get_node(i, j))
Corner(self, grid_type, i, j) == point_getter(grid_type, get_node(self, i, j))

\* The cells with their corners listed (i,j), (i,j+1), (i+1,j+1), (i+1,j).
get_grid_clockwise(self, grid_type) ==
    [c \in 1..((self.height - 1) * (self.width - 1)) |->
        PolygonNew(<< Corner(self, grid_type, CellI(self, c), CellJ(self, c)),
                      Corner(self, grid_type, CellI(self, c), CellJ(self, c) + 1),
                      Corner(self, grid_type, CellI(self, c) + 1, CellJ(self, c) + 1),
                      Corner(self, grid_type, CellI(self, c) + 1, CellJ(self, c)) >>,
                   <<>>)]

\* Grid::get_grid: for i in 0..height-1, for j in 0..width-1, push the polygon
\* of cell (i, j); it is the c-th of the result for c = i * (width - 1) + j + 1.
get_grid(self, grid_type) ==
    [c \in 1..((self.height - 1) * (self.width - 1)) |->
        PolygonNew(<< Corner(self, grid_type, CellI(self, c), CellJ(self, c)),
                      Corner(self, grid_type, CellI(self, c) + 1, CellJ(self, c)),
                      Corner(self, grid_type, CellI(self, c) + 1, CellJ(self, c) + 1),
                      Corner(self, grid_type, CellI(self, c), CellJ(self, c) + 1) >>,
                   <<>>)]

-----------------------------------------------------------------------------
\* The inputs of Grid::new

\* A length check that accepts point sets of different lengths.
InvalidInputPointsLength_empty_only(source, image) == Len(source) = 0

\* The length check that opens Grid::new.
InvalidInputPointsLength(source, image) == Len(source) # Len(image) \/ Len(source) = 0

\* Largest number of source points of the enumerated inputs.
MaxPts == 2

\* Largest n_iter of the enumerated inputs.
MaxIter == 1

SrcPool == { Pt(0, 0), Pt(4, 2), Pt(-1, 0), Pt(-2, 2) }

Precisions == { Q(1, 2), One }

\* Caller-supplied bounding boxes: None, and boxes that cover all, some or
\* none of the pool (source points can lie on their edges or outside).
BBoxOptions ==
    { <<>>,
      << BBoxNew(Q(-1, 1), Zero, Q(3, 1), Two) >>,
      << BBoxNew(Zero, Zero, Two, One) >>,
      << BBoxNew(Zero, Zero, Q(1, 2), One) >> }

RECURSIVE SeqsUpTo(_, _)
SeqsUpTo(S, n) ==
    IF n = 0 THEN { <<>> }
    ELSE LET shorter == SeqsUpTo(S, n - 1)
         IN  shorter \cup { Append(q, e) : q \in { t \in shorter : Len(t) = n - 1 }, e \in S }

\* The image point sets paired with a source point set: the same points, a
\* translation, a horizontal stretch, every point on the first one, and sets
\* of another length.
Translated(p) == Coord(FAdd(p.x, One), FAdd(p.y, Q(1, 2)))

Stretched(p) == Coord(FMul(p.x, Two), p.y)

ImagesOf(src) ==
    { src,
      [k \in 1..Len(src) |-> Translated(src[k])],
      [k \in 1..Len(src) |-> Stretched(src[k])],
      [k \in 1..Len(src) |-> src[1]],
      Append(src, Pt(0, 0)),
      IF Len(src) = 0 THEN <<>> ELSE SubSeq(src, 1, Len(src) - 1) }

\* Valid input of the builder: a source extent of positive width and height
\* and a zone whose area per point has an exact square root.
ExactlyResolved(zone, len) ==
    HasExactSqrt(FDiv(FMul(zone.width, zone.height), FromInt(len)))

PositiveExtent(rect) == FGt(rect.width, Zero) /\ FGt(rect.height, Zero)

ValidSource(src, bb) ==
    /\ Len(src) > 0
    /\ PositiveExtent(from_points(src))
    /\ ExactlyResolved(InitialZone(src, bb), Len(src))

\* The source of scenario S6: n x n points spread evenly over [0,10] x [0,10].
S6Source(n) ==
    [k \in 1..(n * n) |->
        Coord(Q(10 * ((k - 1) % n), n - 1), Q(10 * ((k - 1) \div n), n - 1))]

S6Inputs ==
    { [src |-> S6Source(n), img |-> S6Source(n), prec |-> Two, n_iter |-> 0, bb |-> <<>>]
        : n \in {2, 3} }

\* An identity input (image == source) listed from east to west with its
\* westmost x at -1, solved once on a 4 x 5 lattice: the point (-1/2, 4/3)
\* lies in a cell whose corners are not on the east or west border.
WestOfOriginInputs ==
    LET src == << Coord(Q(-1, 4), Zero), Coord(Q(-1, 2), Q(4, 3)),
                  Coord(Q(-1, 1), Zero), Coord(Q(-1, 1), Q(1, 2)) >>
    IN  { [src |-> src, img |-> src, prec |-> One, n_iter |-> 1, bb |-> <<>>] }

\* An identity input east of the origin solved with two passes.
TwoPassInputs ==
    { [src |-> << Pt(0, 0), Pt(4, 2) >>, img |-> << Pt(0, 0), Pt(4, 2) >>,
       prec |-> One, n_iter |-> MaxIter + 1, bb |-> <<>>] }

\* An identity input that lists its first point twice, solved once.
RepeatedPointInputs ==
    { [src |-> << Pt(0, 0), Pt(3, 1), Pt(0, 0) >>, img |-> << Pt(0, 0), Pt(3, 1), Pt(0, 0) >>,
       prec |-> One, n_iter |-> 1, bb |-> <<>>] }

\* Largest lattice (in nodes) on which a solve that moves nodes is enumerated:
\* on larger lattices the exact positions of the smoothed nodes outgrow the
\* integers of the model checker after a few sweeps.
MaxSolvedNodes == 9

\* Whether the solver runs on this input in the model: always for n_iter = 0
\* and for image == source, else on the small lattices built without a
\* caller-supplied bbox only.
Enumerated(s, i, p, n, b) ==
    \/ n = 0
    \/ i = s
    \/ InvalidInputPointsLength(s, i)
    \/ /\ b = <<>>
       /\ Len(NodeSetNew(s, p, b).nodes) <= MaxSolvedNodes

InputsOf(s) ==
    { in \in { [src |-> s, img |-> i, prec |-> p, n_iter |-> n, bb |-> b] :
                 i \in ImagesOf(s), p \in Precisions, n \in 0..MaxIter,
                 b \in { o \in BBoxOptions : Len(s) = 0 \/ ValidSource(s, o) } } :
        Enumerated(in.src, in.img, in.prec, in.n_iter, in.bb) }

Inputs == S6Inputs \cup WestOfOriginInputs \cup TwoPassInputs \cup RepeatedPointInputs
          \cup UNION { InputsOf(s) : s \in SeqsUpTo(SrcPool, MaxPts) }

-----------------------------------------------------------------------------
\* The state machine: Grid::new step by step, then the readers

NoResult == [op |-> "none", tag |-> "None"]

\* No free function is being called.
NoCall == [fn |-> "none"]

InitWith(inputs) ==
    /\ \E in \in inputs :
        /\ source_points = in.src
        /\ image_points = in.img
        /\ precision = in.prec
        /\ n_iter = in.n_iter
        /\ bbox_opt = in.bb
    /\ nodes = <<>>
    /\ interpolated_points = <<>>
    /\ mae = Zero
    /\ r_squared = Zero
    /\ rmse_interpolated_image = [rmse |-> Zero, rmse_x |-> Zero, rmse_y |-> Zero]
    /\ rmse_interpolated_source = [rmse |-> Zero, rmse_x |-> Zero, rmse_y |-> Zero]
    /\ pc = "new"
    /\ k_iter = 0
    /\ pair_idx = 1
    /\ l_sweep = 0
    /\ ret = NoResult
    /\ call = NoCall

Init == InitWith(Inputs)

\* Grid::new up to the seeding loop: the length check and NodeSet::new.
GridNew ==
    /\ pc = "new"
    /\ IF InvalidInputPointsLength(source_points, image_points)
       THEN /\ pc' = "failed"
            /\ ret' = [op |-> "new", tag |-> "Err", err |-> "InvalidInputPointsLength"]
            /\ UNCHANGED nodes
       ELSE /\ nodes' = NodeSetNew(source_points, precision, bbox_opt)
            /\ pc' = "seed"
            /\ UNCHANGED ret
    /\ UNCHANGED <<call, source_points, image_points, precision, n_iter, bbox_opt,
                   interpolated_points, mae, r_squared, rmse_interpolated_image,
                   rmse_interpolated_source, k_iter, pair_idx, l_sweep>>

\* One iteration of `for p in source_points { nodes.set_weight_adjacent_nodes(p, 1.0); }`
\* (an index out of the node vector panics); interpolate starts after the last.
Seed ==
    /\ pc = "seed"
    /\ IF LookupOk(nodes, source_points[pair_idx])
       THEN /\ nodes' = set_weight_adjacent_nodes(nodes, source_points[pair_idx], One)
            /\ UNCHANGED ret
            /\ IF pair_idx < Len(source_points)
               THEN pc' = "seed" /\ pair_idx' = pair_idx + 1
               ELSE /\ pair_idx' = 1
                    /\ pc' = IF n_iter = 0 THEN "finish" ELSE "phase1"
       ELSE /\ pc' = "panicked"
            /\ ret' = [op |-> "new", tag |-> "Panic"]
            /\ UNCHANGED <<nodes, pair_idx>>
    /\ UNCHANGED <<call, source_points, image_points, precision, n_iter, bbox_opt,
                   interpolated_points, mae, r_squared, rmse_interpolated_image,
                   rmse_interpolated_source, k_iter, l_sweep>>

\* Phase I, one (src_pt, adj_pt) pair of `points.iter().zip(image_points)`:
\* adj_nodes, smoothed_nodes, the four adjustments and their application.
PhaseI ==
    /\ pc = "phase1"
    /\ \E sx \in { scale_x(source_points, image_points) },
          sy \in { scale_y(source_points, image_points) },
          adj_nodes \in { get_adjacent_nodes(nodes, source_points[pair_idx]) } :
        \E smoothed_nodes \in { SmoothedNodes(nodes, adj_nodes, sx, sy) } :
            \E adj \in { PairAdjustments(adj_nodes, smoothed_nodes, nodes.resolution,
                                         source_points[pair_idx], image_points[pair_idx]) } :
                nodes' = ApplyAdjustments(nodes, source_points[pair_idx], adj)
    /\ IF pair_idx = Len(source_points)
       THEN pc' = "phase2" /\ pair_idx' = 1 /\ l_sweep' = 0
       ELSE pc' = "phase1" /\ pair_idx' = pair_idx + 1 /\ UNCHANGED l_sweep
    /\ UNCHANGED <<call, source_points, image_points, precision, n_iter, bbox_opt,
                   interpolated_points, mae, r_squared, rmse_interpolated_image,
                   rmse_interpolated_source, k_iter, ret>>

\* Phase II, one sweep l of `for l in 0..(width * height)`; the pass ends when
\* the sweep breaks or was the last one.
PhaseII ==
    /\ pc = "phase2"
    /\ \E sx \in { scale_x(source_points, image_points) },
          sy \in { scale_y(source_points, image_points) } :
      \E s \in { Sweep(nodes, sx, sy) } :
        LET pass_ends == SweepBreaks(l_sweep, s.delta)
                         \/ l_sweep + 1 >= nodes.width * nodes.height
        IN  /\ nodes' = s.ns
            /\ IF ~pass_ends
               THEN pc' = "phase2" /\ l_sweep' = l_sweep + 1 /\ UNCHANGED k_iter
               ELSE /\ l_sweep' = 0
                    /\ k_iter' = k_iter + 1
                    /\ pc' = IF k_iter + 1 >= n_iter THEN "finish" ELSE "phase1"
    /\ UNCHANGED <<call, source_points, image_points, precision, n_iter, bbox_opt,
                   interpolated_points, mae, r_squared, rmse_interpolated_image,
                   rmse_interpolated_source, pair_idx, ret>>

\* The end of Grid::interpolate: the cache and the metrics.
Finish ==
    /\ pc = "finish"
    /\ interpolated_points' =
           [k \in 1..Len(source_points) |-> _get_interp_point(nodes, source_points[k])]
    /\ mae' = utils_mae(image_points, interpolated_points')
    /\ r_squared' = utils_r_squared(image_points, interpolated_points')
    /\ rmse_interpolated_image' = utils_rmse_sq(interpolated_points', image_points)
    /\ rmse_interpolated_source' = utils_rmse_sq(source_points, interpolated_points')
    /\ pc' = "done"
    /\ ret' = [op |-> "new", tag |-> "Ok"]
    /\ UNCHANGED <<call, source_points, image_points, precision, n_iter, bbox_opt,
                   nodes, k_iter, pair_idx, l_sweep>>

\* The outcome of a get_interp_point(src_point) call as ret records it.
PointCall(src_point, r) ==
    IF r.tag = "Ok"
    THEN [op |-> "get_interp_point", src_point |-> src_point, tag |-> "Ok",
          value |-> r.value, lookups |-> r.lookups]
    ELSE IF r.tag = "Err"
    THEN [op |-> "get_interp_point", src_point |-> src_point, tag |-> "Err",
          err |-> r.err, lookups |-> r.lookups]
    ELSE [op |-> "get_interp_point", src_point |-> src_point, tag |-> "Panic",
          lookups |-> r.lookups]

\* The outcome of an interpolate_layer or interpolate_layer_par call on
\* geometries as ret records it (order is the schedule of the parallel call).
LayerCall(op, geometries, order, r) ==
    IF r.tag = "Ok"
    THEN [op |-> op, geometries |-> geometries, order |-> order, tag |-> "Ok",
          value |-> r.value, applied |-> r.applied]
    ELSE IF r.tag = "Err"
    THEN [op |-> op, geometries |-> geometries, order |-> order, tag |-> "Err",
          err |-> r.err, applied |-> r.applied]
    ELSE [op |-> op, geometries |-> geometries, order |-> order, tag |-> "Panic",
          applied |-> r.applied]

\* Query coordinates along one axis: from half a cell before the zone to half
\* a cell after it, every half cell (so node positions, cell centres, the
\* zone's edges and outside points).
QueryOffsets(count) == { FDiv(FMul(FromInt(m), nodes.resolution), Two) : m \in -1..(2 * (count - 1) + 1) }

QueryPoints ==
    { Coord(FAdd(min_x(nodes.zone), ox), FAdd(min_y(nodes.zone), oy)) :
        ox \in QueryOffsets(nodes.width), oy \in QueryOffsets(nodes.height) }

\* A call of Grid::get_interp_point on the constructed grid.  The readers
\* change nothing of the grid, so a behaviour makes one reader call: a second
\* call would start from the same grid.
GetInterpPoint ==
    /\ pc = "done"
    /\ ret.op = "new"
    /\ \E q \in QueryPoints :
        \E r \in { get_interp_point(nodes, q) } : ret' = PointCall(q, r)
    /\ UNCHANGED <<call, source_points, image_points, precision, n_iter, bbox_opt, nodes,
                   interpolated_points, mae, r_squared, rmse_interpolated_image,
                   rmse_interpolated_source, pc, k_iter, pair_idx, l_sweep>>

\* A call of Grid::deformation_strength and of node_deformation_strength at
\* every node of the constructed grid; the results are recorded before the
\* final sqrt (mean_sq and node_sq[n] are the values under the root).
DeformationStrength ==
    /\ pc = "done"
    /\ ret.op = "new"
    /\ ret' = [op |-> "deformation_strength", tag |-> "Ok",
               mean_sq |-> deformation_strength_sq(nodes),
               node_sq |-> [n \in 1..(nodes.width * nodes.height) |->
                   node_deformation_strength_sq(nodes, (n - 1) \div nodes.width,
                                                       (n - 1) % nodes.width)]]
    /\ UNCHANGED <<call, source_points, image_points, precision, n_iter, bbox_opt, nodes,
                   interpolated_points, mae, r_squared, rmse_interpolated_image,
                   rmse_interpolated_source, pc, k_iter, pair_idx, l_sweep>>

\* The polygon of scenario S6: the square [-1, 11] x [-1, 11].
S6Polygon ==
    Polygon(PolygonNew(<< Coord(FromInt(-1), FromInt(-1)), Coord(FromInt(11), FromInt(-1)),
                          Coord(FromInt(11), FromInt(11)), Coord(FromInt(-1), FromInt(11)) >>,
                       <<>>))

\* Layers on the vertices a, b, c, e and o: every variant, empty members,
\* nested collections, interior rings, and the polygon of scenario S6.
LayersOn(a, b, c, e, o) ==
    LET inner == PolygonNew(<<a, b, c>>, <<>>)
        holed == PolygonNew(<<a, b, c>>, << <<a, o, c>> >>)
    IN  { <<>>,
          << Point(a) >>,
          << Point(o) >>,
          << Point(e) >>,
          << MultiPoint(<<a, b>>), LineString(<<a, b, c>>) >>,
          << MultiPoint(<<>>) >>,
          << MultiLineString(<< <<a, b>>, <<>>, <<c, a>> >>) >>,
          << MultiLineString(<< <<a, b>>, <<c, o>> >>) >>,
          << Polygon(inner) >>,
          << Polygon(PolygonNew(<<a, b, c>>, << <<a, b, c>> >>)) >>,
          << Polygon(holed) >>,
          << Polygon(PolygonNew(<<a, o, c>>, <<>>)) >>,
          << MultiPolygon(<<inner, inner>>) >>,
          << MultiPolygon(<<inner, holed>>) >>,
          << Triangle(a, b, c), RectNew(c, b), Line(a, b) >>,
          << Triangle(a, o, c) >>,
          << RectNew(c, o) >>,
          << Line(a, o) >>,
          << GeometryCollection(<< Point(a),
                                   GeometryCollection(<< LineString(<<b, c>>) >>) >>) >>,
          << GeometryCollection(<<>>) >>,
          << Point(a), GeometryCollection(<< Point(b), GeometryCollection(<<>>) >>) >>,
          << Point(a), GeometryCollection(<< GeometryCollection(<< Point(o) >>) >>) >>,
          << GeometryCollection(<< Polygon(holed) >>) >>,
          << S6Polygon >> }

\* Layers on the cell centres at (cx, cy), (cx + r, cy) and (cx, cy - r), the
\* point of the east edge at height cy and the point half a cell east of it.
LayersAround(cx, cy, east, r, h) ==
    LayersOn(Coord(cx, cy), Coord(FAdd(cx, r), cy), Coord(cx, FSub(cy, r)),
             Coord(east, cy), Coord(FAdd(east, h), cy))

\* Layers on the north-west cell centre of a zone of cells of side r = 2 * h.
LayersOfZone(zone, r, h) ==
    LayersAround(FAdd(min_x(zone), h), FSub(max_y(zone), h), max_x(zone), r, h)

\* The layers passed to interpolate_layer, built on the grid's own zone: a, b
\* and c are the centres of three cells at the north-west corner, e lies on the
\* east edge of the bbox and o half a cell east of it.
Layers == LayersOfZone(nodes.zone, nodes.resolution, FDiv(nodes.resolution, Two))

\* A call of Grid::interpolate_layer on the constructed grid (one reader call
\* per behaviour, as for GetInterpPoint).
InterpolateLayer ==
    /\ pc = "done"
    /\ ret.op = "new"
    /\ \E geometries \in Layers :
        \E r \in { interpolate_layer(nodes, geometries) } :
            ret' = LayerCall("interpolate_layer", geometries, <<>>, r)
    /\ UNCHANGED <<call, source_points, image_points, precision, n_iter, bbox_opt, nodes,
                   interpolated_points, mae, r_squared, rmse_interpolated_image,
                   rmse_interpolated_source, pc, k_iter, pair_idx, l_sweep>>

\* A call of Grid::interpolate_layer_par on the constructed grid, under every
\* schedule of its per-geometry closures.
InterpolateLayerPar ==
    /\ pc = "done"
    /\ ret.op = "new"
    /\ \E geometries \in Layers :
        \E order \in Schedules(Len(geometries)) :
            \E r \in { interpolate_layer_par(nodes, geometries, order) } :
                ret' = LayerCall("interpolate_layer_par", geometries, order, r)
    /\ UNCHANGED <<call, source_points, image_points, precision, n_iter, bbox_opt, nodes,
                   interpolated_points, mae, r_squared, rmse_interpolated_image,
                   rmse_interpolated_source, pc, k_iter, pair_idx, l_sweep>>

\* A call of Grid::get_grid on the constructed grid.
GetGrid ==
    /\ pc = "done"
    /\ ret.op = "new"
    /\ \E grid_type \in {"Source", "Interpolated"} :
        ret' = [op |-> "get_grid", tag |-> "Ok", grid_type |-> grid_type,
                value |-> get_grid(nodes, grid_type)]
    /\ UNCHANGED <<call, source_points, image_points, precision, n_iter, bbox_opt, nodes,
                   interpolated_points, mae, r_squared, rmse_interpolated_image,
                   rmse_interpolated_source, pc, k_iter, pair_idx, l_sweep>>

Next == GridNew \/ Seed \/ PhaseI \/ PhaseII \/ Finish \/ GetInterpPoint \/ DeformationStrength
          \/ InterpolateLayer \/ InterpolateLayerPar \/ GetGrid

Spec == Init /\ [][Next]_vars

\* Inputs for the first pass of Phase I. The first swaps two points on a 4 x 3
\* lattice on which their cells share no node (the scales are 1). The others
\* have a first point whose cell, on a 6 x 7 lattice, has its four corners in
\* the interior case of get_smoothed and shares no node with the cells of the
\* four other points; the image of the first point and of the others vary.
SwappedInputs ==
    { [src |-> << Pt(0, 0), Pt(4, 2) >>, img |-> << Pt(4, 2), Pt(0, 0) >>,
       prec |-> One, n_iter |-> 1, bb |-> <<>>] }

CentredSource == << Pt(10, 12), Pt(0, 0), Pt(20, 0), Pt(0, 25), Pt(20, 25) >>

CentredImages ==
    { [k \in 1..5 |-> IF k = 1 THEN c
                      ELSE IF moved = 0 THEN CentredSource[k]
                      ELSE IF moved = 1 THEN Translated(CentredSource[k])
                      ELSE Stretched(CentredSource[k])] :
        c \in { Pt(10, 12), Pt(12, 13), Pt(8, 14), Pt(40, 12) }, moved \in 0..2 }

PairInputs ==
    SwappedInputs
    \cup { [src |-> CentredSource, img |-> i, prec |-> Two, n_iter |-> 1, bb |-> <<>>] :
             i \in CentredImages }

\* Grid::new up to the end of Phase I of its first pass.
PairInit == InitWith(PairInputs)

PairNext == GridNew \/ Seed \/ PhaseI

PairSpec == PairInit /\ [][PairNext]_vars

\* Grid::interpolate runs on one thread and a sweep it has started runs to its
\* end: weak fairness of PhaseII, which is enabled exactly when pc = "phase2"
\* and changes pc or l_sweep (the fairness condition is written with this
\* enabling condition in place of ENABLED <<PhaseII>>_<<pc, l_sweep>>).
SweepsAreRun == []<>(pc # "phase2") \/ []<><<PhaseII>>_<<pc, l_sweep>>

FairSpec == Spec /\ SweepsAreRun

-----------------------------------------------------------------------------
\* Properties of Grid::new and of the point reader

\* The lattice exists (NodeSet::new has returned).
Built == pc \notin {"new", "failed"}

\* A reader call on q has returned (or panicked).
Queried == ret.op = "get_interp_point"

\* Row and column of a point on the lattice, before the cast to usize.
RowOf(p) == FloorInt(FDiv(FSub(max_y(nodes.zone), p.y), nodes.resolution))

ColOf(p) == FloorInt(FDiv(FSub(p.x, min_x(nodes.zone)), nodes.resolution))

\* q is inside the closed rectangle [xmin, xmax] x [ymin, ymax] of the grid.
InsideClosedBBox(q) ==
    /\ FGe(q.x, nodes.zone.x)
    /\ FLe(q.x, FAdd(nodes.zone.x, nodes.zone.width))
    /\ FGe(q.y, nodes.zone.y)
    /\ FLe(q.y, FAdd(nodes.zone.y, nodes.zone.height))

\* C1: every query point inside the closed bbox of the grid, its east edge
\* x = xmax and its south edge y = ymin included, is answered Ok, and its cell
\* is a lattice cell: row <= height - 2 and col <= width - 2.
C1_ContainedQueryIsOk ==
    (Queried /\ InsideClosedBBox(ret.src_point)) =>
        /\ ret.tag = "Ok"
        /\ RowOf(ret.src_point) <= nodes.height - 2
        /\ ColOf(ret.src_point) <= nodes.width - 2

\* C2: once the lattice is built from valid input, with or without a supplied
\* bbox, every source point has 0 <= row <= height - 2 and
\* 0 <= col <= width - 2, and the seeding loop never indexes out of the lattice.
C2_SourcePointsInCells ==
    /\ Built =>
        \A k \in 1..Len(source_points) :
            /\ 0 <= RowOf(source_points[k])
            /\ RowOf(source_points[k]) <= nodes.height - 2
            /\ 0 <= ColOf(source_points[k])
            /\ ColOf(source_points[k]) <= nodes.width - 2
    /\ pc # "panicked"

\* C2's case: a grid constructed to the end on a lattice built with a supplied
\* bbox that leaves a source point outside.
C2_Witness ==
    /\ pc = "done"
    /\ bbox_opt # <<>>
    /\ \E k \in 1..Len(source_points) : ~contains(bbox_opt[1], source_points[k])

\* C6: Grid::new returns Err(InvalidInputPointsLength) exactly when the lengths
\* differ or the source is empty, and it does so before a lattice is built.
C6_LengthCheck ==
    LET bad == Len(source_points) # Len(image_points) \/ Len(source_points) = 0
    IN  /\ (pc # "new" /\ bad) =>
            /\ pc = "failed"
            /\ ret = [op |-> "new", tag |-> "Err", err |-> "InvalidInputPointsLength"]
            /\ nodes = <<>>
        /\ (pc # "new" /\ ~bad) => (pc # "failed" /\ ~(ret.op = "new" /\ ret.tag = "Err"))

\* C6's case: the error on lengths that differ, with a non-empty source.
C6_Witness ==
    /\ pc = "failed"
    /\ Len(source_points) > 0
    /\ Len(source_points) # Len(image_points)

\* C7: a query point outside the bbox on any side is answered
\* Err(PointNotInBBox) and no node is looked up.
C7_OutsideQueryIsErr ==
    (Queried /\ ~InsideClosedBBox(ret.src_point)) =>
        /\ ret.tag = "Err"
        /\ ret.err = "PointNotInBBox"
        /\ ret.lookups = <<>>

\* C7's case: a query east of the bbox (the other three coordinates inside).
C7_Witness ==
    /\ Queried
    /\ FGt(ret.src_point.x, FAdd(nodes.zone.x, nodes.zone.width))
    /\ FGe(ret.src_point.y, nodes.zone.y)
    /\ FLe(ret.src_point.y, FAdd(nodes.zone.y, nodes.zone.height))
    /\ ret.tag = "Err"

\* C8: with image_points == source_points, for every n_iter, no step of the
\* solver moves a node (every node keeps interp == source through Phase I and
\* Phase II) and the cached interpolated_points equal the source points.
C8_IdentityLeavesNodesInPlace ==
    (image_points = source_points /\ Built) =>
        /\ \A n \in 1..Len(nodes.nodes) : nodes.nodes[n].interp = nodes.nodes[n].source
        /\ pc = "done" => interpolated_points = source_points

\* The interior nodes: 1 <= i <= height - 2 and 1 <= j <= width - 2.
IsInteriorNode(node) ==
    /\ 1 <= node.i /\ node.i <= nodes.height - 2
    /\ 1 <= node.j /\ node.j <= nodes.width - 2

\* C10: a query at the source position of an interior node returns exactly
\* that node's interp.
C10_BilinearConsistency ==
    Queried =>
        \A n \in 1..Len(nodes.nodes) :
            (IsInteriorNode(nodes.nodes[n]) /\ nodes.nodes[n].source = ret.src_point) =>
                (ret.tag = "Ok" /\ ret.value = nodes.nodes[n].interp)

\* C10's case: a query at an interior node that the solver has moved.
C10_Witness ==
    /\ Queried
    /\ \E n \in 1..Len(nodes.nodes) :
        /\ IsInteriorNode(nodes.nodes[n])
        /\ nodes.nodes[n].source = ret.src_point
        /\ nodes.nodes[n].interp # nodes.nodes[n].source
        /\ IsFinite(nodes.nodes[n].interp.x)
        /\ ret.tag = "Ok"

\* Every node of the lattice has interp == source.
NodesInPlace == \A n \in 1..Len(nodes.nodes) : nodes.nodes[n].interp = nodes.nodes[n].source

\* C9 as stated: after an identity mapping that left every node's interp equal
\* to its source, deformation_strength() and node_deformation_strength(i, j)
\* at every node are below 1e-6.
C9_IdentityStrengthNearZero ==
    (ret.op = "deformation_strength" /\ image_points = source_points /\ NodesInPlace) =>
        /\ SqrtLtReciprocal(ret.mean_sq, 1000000)
        /\ \A n \in DOMAIN ret.node_sq : SqrtLtReciprocal(ret.node_sq[n], 1000000)

\* C9, amended: after an identity mapping deformation_strength() and
\* node_deformation_strength(i, j) are never below 1e-6: where every node's
\* interp equals its source they are exactly 1 (the root of 1), and otherwise
\* the field holds NaN and deformation_strength() is NaN.
C9_IdentityStrengthIsOne ==
    (ret.op = "deformation_strength" /\ image_points = source_points) =>
        /\ ~SqrtLtReciprocal(ret.mean_sq, 1000000)
        /\ \A n \in DOMAIN ret.node_sq : ~SqrtLtReciprocal(ret.node_sq[n], 1000000)
        /\ IF NodesInPlace
           THEN ret.mean_sq = One /\ \A n \in DOMAIN ret.node_sq : ret.node_sq[n] = One
           ELSE IsNaN(ret.mean_sq)

\* C9's case: the strengths read after an identity mapping solved with
\* n_iter >= 1 that left every node in place.
C9_Witness ==
    /\ ret.op = "deformation_strength"
    /\ image_points = source_points
    /\ n_iter >= 1
    /\ NodesInPlace
    /\ ret.mean_sq = One

-----------------------------------------------------------------------------
\* Properties of the layer transformer

\* A call of interpolate_layer has returned (or panicked).
LayerDone == ret.op = "interpolate_layer"

\* Every vertex of the layer: all coordinates of all components, interior
\* rings and the contents of nested collections included.
LayerVertices(geometries) ==
    UNION { Range(VisitedCoords(geometries[k])) : k \in 1..Len(geometries) }

\* Variant tag, nesting and vertex counts of a geometry.
RECURSIVE Shape(_)
Shape(geom) ==
    LET PolyShape(poly) ==
            << Len(poly.exterior), [k \in 1..Len(poly.interiors) |-> Len(poly.interiors[k])] >>
    IN  CASE geom.tag \in {"MultiPoint", "LineString"} -> << geom.tag, Len(geom.cs) >>
          [] geom.tag = "MultiLineString" ->
                << geom.tag, [k \in 1..Len(geom.ls) |-> Len(geom.ls[k])] >>
          [] geom.tag = "Polygon" -> << geom.tag, PolyShape(geom.poly) >>
          [] geom.tag = "MultiPolygon" ->
                << geom.tag, [k \in 1..Len(geom.polys) |-> PolyShape(geom.polys[k])] >>
          [] geom.tag = "GeometryCollection" ->
                << geom.tag, [k \in 1..Len(geom.gs) |-> Shape(geom.gs[k])] >>
          [] OTHER -> << geom.tag >>

\* C3: when every vertex of every geometry of the layer is inside the bbox,
\* interpolate_layer returns Ok with one geometry per input geometry, in
\* order, of the same variant, nesting and vertex counts (nested collections
\* and members without vertices included).
C3_LayerStructurePreserved ==
    (LayerDone /\ \A c \in LayerVertices(ret.geometries) : InsideClosedBBox(c)) =>
        /\ ret.tag = "Ok"
        /\ Len(ret.value) = Len(ret.geometries)
        /\ \A k \in 1..Len(ret.geometries) : Shape(ret.value[k]) = Shape(ret.geometries[k])

\* C4: when a vertex that the transformer would visit lies outside the bbox
\* (a vertex of an interior ring or of a nested collection included),
\* interpolate_layer returns Err(GeometriesNotInBBox) and the point
\* interpolator is applied to no vertex.
C4_OutsideVertexIsErr ==
    (LayerDone /\ \E c \in LayerVertices(ret.geometries) : ~InsideClosedBBox(c)) =>
        /\ ret.tag = "Err"
        /\ ret.err = "GeometriesNotInBBox"
        /\ ret.applied = <<>>

\* The grids of scenario S6: no supplied bbox, precision 2, source points
\* whose bounding rectangle is [0, 10] x [0, 10].
IsS6Grid ==
    /\ bbox_opt = <<>>
    /\ precision = Two
    /\ Len(source_points) > 0
    /\ from_points(source_points) = Rectangle2DNew(Zero, Zero, FromInt(10), FromInt(10))

\* C5 as stated: on every grid of scenario S6, whatever the number of source
\* points, interpolate_layer on the polygon [-1, 11] x [-1, 11] returns
\* Err(GeometriesNotInBBox).
C5_S6LayerIsRejected ==
    (LayerDone /\ IsS6Grid /\ ret.geometries = << S6Polygon >>) =>
        (ret.tag = "Err" /\ ret.err = "GeometriesNotInBBox")

\* C5, amended: on the grid of scenario S6 built from n x n source points the
\* bbox is the source rectangle grown by 5 / (2 n) on every side, and
\* interpolate_layer on the polygon [-1, 11] x [-1, 11] returns
\* Err(GeometriesNotInBBox) when that padding is below 1 (n >= 3) and Ok
\* when it is not (n = 2: the bbox is [-1.25, 11.25] x [-1.25, 11.25]).
C5_S6LayerRejectedWhenPaddingBelowOne ==
    (LayerDone /\ IsS6Grid /\ ret.geometries = << S6Polygon >>) =>
        \E pad \in { Q(5, 2 * SqrtInt(Len(source_points))) } :
            /\ bbox(nodes) = BBoxNew(FNeg(pad), FNeg(pad),
                                     FAdd(FromInt(10), pad), FAdd(FromInt(10), pad))
            /\ IF FLt(pad, One)
               THEN ret.tag = "Err" /\ ret.err = "GeometriesNotInBBox"
               ELSE ret.tag = "Ok"

\* C5's case: the polygon of scenario S6 rejected on the grid of 3 x 3 source
\* points.
C5_Witness ==
    /\ LayerDone
    /\ IsS6Grid
    /\ ret.geometries = << S6Polygon >>
    /\ Len(source_points) = 9
    /\ ret.tag = "Err"

-----------------------------------------------------------------------------
\* Properties of the constructed grid

\* C11: once Grid::new has returned the grid, before and after every reader
\* call, interpolated_points has one entry per source point and, for every k,
\* get_interp_point(source_points[k]) on the grid's nodes is Ok and its value
\* equals interpolated_points[k] (Coord's ==).
C11_CacheCoherence ==
    pc = "done" =>
        /\ Len(interpolated_points) = Len(source_points)
        /\ \A k \in 1..Len(source_points) :
              \E r \in { get_interp_point(nodes, source_points[k]) } :
                  r.tag = "Ok" /\ CoordEq(r.value, interpolated_points[k])

\* C12: the bbox of the built grid contains every source point and, when a
\* bbox was supplied, that whole bbox; and Grid::new fails on no input of
\* matching non-zero lengths, whether or not the supplied bbox covers the
\* source points.
C12_ContainmentAndExpansion ==
    /\ Built =>
          /\ \A k \in 1..Len(source_points) : contains(bbox(nodes), source_points[k])
          /\ bbox_opt # <<>> => contains_bbox(bbox(nodes), bbox_opt[1])
    /\ ~InvalidInputPointsLength(source_points, image_points) =>
          (pc \notin {"failed", "panicked"} /\ (ret.op = "new" => ret.tag = "Ok"))

\* C12's case: Grid::new has returned Ok on a supplied bbox that leaves a
\* source point outside, and the grid's bbox contains that point.
C12_Witness ==
    /\ pc = "done"
    /\ ret = [op |-> "new", tag |-> "Ok"]
    /\ bbox_opt # <<>>
    /\ \E k \in 1..Len(source_points) :
          /\ ~contains(bbox_opt[1], source_points[k])
          /\ contains(bbox(nodes), source_points[k])

\* NodeSet::new has just returned: no weight is seeded yet.
JustBuilt == pc = "seed" /\ pair_idx = 1

\* C13: once the lattice is built, width >= 2 and height >= 2, the node
\* vector holds width * height nodes, and the node stored at index
\* i * width + j has indices (i, j) and
\* source = (zone.xmin + j * resolution, zone.ymax - i * resolution);
\* before seeding its weight is 0 and its interp equals its source.
C13_LatticeConsistency ==
    Built =>
        /\ nodes.width >= 2
        /\ nodes.height >= 2
        /\ Len(nodes.nodes) = nodes.width * nodes.height
        /\ \A i \in 0..(nodes.height - 1), j \in 0..(nodes.width - 1) :
              \E node \in { nodes.nodes[i * nodes.width + j + 1] } :
                  /\ node.i = i
                  /\ node.j = j
                  /\ node.source.x = FAdd(nodes.zone.x, FMul(Q(j, 1), nodes.resolution))
                  /\ node.source.y = FSub(FAdd(nodes.zone.y, nodes.zone.height),
                                          FMul(Q(i, 1), nodes.resolution))
                  /\ JustBuilt => (node.weight = Zero /\ node.interp = node.source)

\* C13's case: a lattice of at least 3 x 3 nodes that NodeSet::new has just
\* returned, with its last node on the bottom edge of the zone.
C13_Witness ==
    /\ JustBuilt
    /\ nodes.width >= 3
    /\ nodes.height >= 3
    /\ nodes.nodes[Len(nodes.nodes)].source.y = nodes.zone.y

\* The zone before padding: the zone NodeSet::new starts from.
ZoneBeforePadding == InitialZone(source_points, bbox_opt)

\* The lattice has the final node counts ceil(W / resolution) + 2 and
\* ceil(H / resolution) + 2, and the zone has kept the centre of the zone
\* before padding.
SizedAndCentered ==
    /\ nodes.width = CeilUsize(FDiv(ZoneBeforePadding.width, nodes.resolution)) + 2
    /\ nodes.height = CeilUsize(FDiv(ZoneBeforePadding.height, nodes.resolution)) + 2
    /\ center_x(nodes.zone) = center_x(ZoneBeforePadding)
    /\ center_y(nodes.zone) = center_y(ZoneBeforePadding)

\* The zone extends the zone before padding by (cols * resolution - W) / 2 on
\* each horizontal side and by (rows * resolution - H) / 2 on each vertical side.
ExtendedBy(cols, rows) ==
    \E ex \in { FDiv(FSub(FMul(Q(cols, 1), nodes.resolution), ZoneBeforePadding.width), Two) },
       ey \in { FDiv(FSub(FMul(Q(rows, 1), nodes.resolution), ZoneBeforePadding.height), Two) } :
        /\ FSub(min_x(ZoneBeforePadding), min_x(nodes.zone)) = ex
        /\ FSub(max_x(nodes.zone), max_x(ZoneBeforePadding)) = ex
        /\ FSub(min_y(ZoneBeforePadding), min_y(nodes.zone)) = ey
        /\ FSub(max_y(nodes.zone), max_y(ZoneBeforePadding)) = ey

\* C14 as stated: the final node counts are ceil(W / resolution) + 2 and
\* ceil(H / resolution) + 2, the zone keeps its centre, and it extends the
\* zone before padding by (width * resolution - W) / 2 and
\* (height * resolution - H) / 2 per side, width and height being the final
\* node counts.
C14_GridSizing ==
    Built => (SizedAndCentered /\ ExtendedBy(nodes.width, nodes.height))

\* C14, amended: the final node counts are ceil(W / resolution) + 2 and
\* ceil(H / resolution) + 2, the zone keeps its centre, and it extends the
\* zone before padding by ((width - 1) * resolution - W) / 2 and
\* ((height - 1) * resolution - H) / 2 per side: the zone spans the
\* width - 1 by height - 1 cells of the lattice.
C14_GridSizingByCells ==
    Built =>
        /\ SizedAndCentered
        /\ ExtendedBy(nodes.width - 1, nodes.height - 1)
        /\ nodes.zone.width = FMul(Q(nodes.width - 1, 1), nodes.resolution)
        /\ nodes.zone.height = FMul(Q(nodes.height - 1, 1), nodes.resolution)

\* C14's case: a lattice built on a supplied bbox grown by the source points,
\* whose height is not a whole number of cells (the padding is not a whole cell).
C14_Witness ==
    /\ Built
    /\ bbox_opt # <<>>
    /\ ZoneBeforePadding # from_bbox(bbox_opt[1])
    /\ FMul(Q(nodes.height - 2, 1), nodes.resolution) # ZoneBeforePadding.height

-----------------------------------------------------------------------------
\* Properties of the metrics

\* C15: r_squared() of every constructed grid is between 0 and 1 inclusive.
C15_RSquaredInUnitInterval ==
    pc = "done" => (FGe(r_squared, Zero) /\ FLe(r_squared, One))

\* The three components of an RMSE are zero or positive.
RmseNonNegative(e) == SqrtGeZero(e.rmse) /\ SqrtGeZero(e.rmse_x) /\ SqrtGeZero(e.rmse_y)

StoredMetricsBounded ==
    /\ FLe(r_squared, One)
    /\ FGe(mae, Zero)
    /\ RmseNonNegative(rmse_interpolated_image)
    /\ RmseNonNegative(rmse_interpolated_source)

DeformationNonNegative ==
    /\ SqrtGeZero(ret.mean_sq)
    /\ \A n \in DOMAIN ret.node_sq : SqrtGeZero(ret.node_sq[n])

\* C16: on every constructed grid r_squared <= 1, mae >= 0, every component of
\* rmse_interp_image and rmse_interp_source is >= 0, and deformation_strength
\* and node_deformation_strength at every node are >= 0.
C16_MetricBounds ==
    /\ pc = "done" => StoredMetricsBounded
    /\ ret.op = "deformation_strength" => DeformationNonNegative

-----------------------------------------------------------------------------
\* Properties of get_grid

\* The node of row i and column j of the lattice, in the field a grid type names.
NodeField(grid_type, i, j) ==
    IF grid_type = "Source" THEN nodes.nodes[i * nodes.width + j + 1].source
    ELSE nodes.nodes[i * nodes.width + j + 1].interp

Cross(p, q) == FSub(FMul(p.x, q.y), FMul(q.x, p.y))

\* Twice the signed area of the ring a, b, c, d, a: positive when the ring
\* turns counter-clockwise.
TwiceSignedArea(a, b, c, d) ==
    FAdd(FAdd(Cross(a, b), Cross(b, c)), FAdd(Cross(c, d), Cross(d, a)))

\* The polygon poly is the cell on the corners a, b, c, d in this order: no
\* interior ring, and an exterior that visits a, b, c, d and then closes on a.
IsCellOn(poly, a, b, c, d) ==
    /\ poly.interiors = <<>>
    /\ Len(poly.exterior) \in {4, 5}
    /\ SubSeq(poly.exterior, 1, 4) = <<a, b, c, d>>
    /\ Len(poly.exterior) = 5 => poly.exterior[5] = a

\* C17: get_grid(t) returns (width-1)*(height-1) polygons, the cell (i, j) at
\* index i*(width-1)+j, each without interior rings and with the exterior
\* (i,j), (i+1,j), (i+1,j+1), (i,j+1) taken from source for Source and from
\* interp for Interpolated; on the Source grid the exterior is counter-clockwise.
C17_GetGridCells ==
    ret.op = "get_grid" =>
        /\ Len(ret.value) = (nodes.width - 1) * (nodes.height - 1)
        /\ \A i \in 0..(nodes.height - 2), j \in 0..(nodes.width - 2) :
              /\ IsCellOn(ret.value[i * (nodes.width - 1) + j + 1],
                          NodeField(ret.grid_type, i, j), NodeField(ret.grid_type, i + 1, j),
                          NodeField(ret.grid_type, i + 1, j + 1), NodeField(ret.grid_type, i, j + 1))
              /\ ret.grid_type = "Source" =>
                    FGt(TwiceSignedArea(NodeField("Source", i, j), NodeField("Source", i + 1, j),
                                        NodeField("Source", i + 1, j + 1),
                                        NodeField("Source", i, j + 1)), Zero)

\* A Source grid of at least two rows and two columns of cells was returned
\* for a lattice whose nodes have moved.
C17_Witness ==
    /\ ret.op = "get_grid"
    /\ ret.grid_type = "Source"
    /\ nodes.width >= 3
    /\ nodes.height >= 3
    /\ Len(ret.value) = (nodes.width - 1) * (nodes.height - 1)
    /\ \A n \in DOMAIN nodes.nodes :
          /\ IsFinite(nodes.nodes[n].interp.x)
          /\ IsFinite(nodes.nodes[n].interp.y)
    /\ \E n \in DOMAIN nodes.nodes : nodes.nodes[n].interp # nodes.nodes[n].source

-----------------------------------------------------------------------------
\* Properties of the parallel layer transform and of the readers

\* Two results of a layer transform are the same outcome: the same error, the
\* same panic, or the same geometries at the same indices.
SameOutcome(par, seq) ==
    /\ par.tag = seq.tag
    /\ par.tag = "Err" => par.err = seq.err
    /\ par.tag = "Ok" => par.value = seq.value

\* A step taken on the constructed grid (a reader call) leaves the grid as it is.
ReadersLeaveGrid ==
    pc = "done" =>
        /\ nodes' = nodes
        /\ interpolated_points' = interpolated_points
        /\ <<mae, r_squared, rmse_interpolated_image, rmse_interpolated_source>>' =
               <<mae, r_squared, rmse_interpolated_image, rmse_interpolated_source>>

-----------------------------------------------------------------------------
\* Properties of the solver

\* The solver is inside a pass: the states from which get_smoothed is called.
Solving == pc \in {"phase1", "phase2"}

\* The image points are the source points moved by one vector.
IsTranslation ==
    \A k \in DOMAIN source_points :
        /\ FEq(FSub(image_points[k].x, source_points[k].x),
               FSub(image_points[1].x, source_points[1].x))
        /\ FEq(FSub(image_points[k].y, source_points[k].y),
               FSub(image_points[1].y, source_points[1].y))

\* C19: the scales the solver passes to get_smoothed are the width and the
\* height of the bounding box of the image points divided by those of the
\* bounding box of the source points; a translation gives sx = sy = 1.
C19_ScalesAreBBoxRatios ==
    Solving =>
        /\ FEq(scale_x(source_points, image_points),
               FDiv(from_points(image_points).width, from_points(source_points).width))
        /\ FEq(scale_y(source_points, image_points),
               FDiv(from_points(image_points).height, from_points(source_points).height))
        /\ IsTranslation => /\ FEq(scale_x(source_points, image_points), One)
                            /\ FEq(scale_y(source_points, image_points), One)

\* The lattice a sweep's row-major loops have in hand when they reach node n:
\* the nodes before n as the sweep leaves them, n and the nodes after it as
\* the sweep found them.
LatticeWhenReaching(n) ==
    [nodes EXCEPT !.nodes = [m \in DOMAIN nodes.nodes |->
        IF m < n THEN nodes'.nodes[m] ELSE nodes.nodes[m]]]

\* A step of Phase II is one sweep in place and in row-major order: a node of
\* weight zero moves to its smoothed position on the lattice the loops have in
\* hand when they reach it, the other nodes stay.
SweepsInPlaceRowMajor ==
    \A n \in DOMAIN nodes.nodes :
        nodes'.nodes[n] =
            IF FEq(nodes.nodes[n].weight, Zero)
            THEN [nodes.nodes[n] EXCEPT !.interp =
                     get_smoothed(LatticeWhenReaching(n), (n - 1) \div nodes.width,
                                  (n - 1) % nodes.width,
                                  scale_x(source_points, image_points),
                                  scale_y(source_points, image_points))]
            ELSE nodes.nodes[n]

\* The position of corner c of the cell of the current pair in the node vector.
PairCorner(c) ==
    (get_i(nodes, source_points[pair_idx]) + ((c - 1) \div 2)) * nodes.width
        + get_j(nodes, source_points[pair_idx]) + ((c - 1) % 2) + 1

\* The four adjustments of the current pair, all computed on the lattice as
\* the step finds it (with the writes of the earlier pairs).
AdjustmentsOnEntry ==
    PairAdjustments(get_adjacent_nodes(nodes, source_points[pair_idx]),
                    SmoothedNodes(nodes, get_adjacent_nodes(nodes, source_points[pair_idx]),
                                  scale_x(source_points, image_points),
                                  scale_y(source_points, image_points)),
                    nodes.resolution, source_points[pair_idx], image_points[pair_idx])

\* A step of Phase I processes the pair pair_idx: each corner of its cell gets
\* the adjustment computed on entry, the other nodes stay.
PairReadsBeforeWrites ==
    \A n \in DOMAIN nodes.nodes :
        nodes'.nodes[n] =
            IF \E c \in 1..4 : n = PairCorner(c)
            THEN [nodes.nodes[n] EXCEPT !.interp =
                     Coord(FAdd(@.x, AdjustmentsOnEntry[CHOOSE c \in 1..4 : n = PairCorner(c)].x),
                           FAdd(@.y, AdjustmentsOnEntry[CHOOSE c \in 1..4 : n = PairCorner(c)].y))]
            ELSE nodes.nodes[n]

\* The order of the steps of one solve.
SolveOrder ==
    /\ (pc = "seed" /\ pc' # "seed") =>
          /\ pc' \in {"phase1", "finish", "panicked"}
          /\ pc' = "finish" => n_iter = 0
          /\ pc' = "phase1" => (n_iter > 0 /\ k_iter' = 0 /\ pair_idx' = 1)
    /\ pc = "phase1" =>
          /\ PairReadsBeforeWrites
          /\ k_iter' = k_iter
          /\ IF pair_idx < Len(source_points)
             THEN pc' = "phase1" /\ pair_idx' = pair_idx + 1
             ELSE pc' = "phase2" /\ l_sweep' = 0
    /\ pc = "phase2" =>
          /\ SweepsInPlaceRowMajor
          /\ pc' \in {"phase2", "phase1", "finish"}
          /\ pc' = "phase2" => (k_iter' = k_iter /\ l_sweep' = l_sweep + 1
                                /\ l_sweep' < nodes.width * nodes.height)
          /\ pc' = "phase1" => (k_iter' = k_iter + 1 /\ k_iter' < n_iter /\ pair_idx' = 1)
          /\ pc' = "finish" => (k_iter' = k_iter + 1 /\ k_iter' = n_iter)
    /\ pc' = "done" => k_iter' = n_iter

\* C20: exactly n_iter passes run; in a pass the pairs are processed in input
\* order, each on the lattice the earlier pairs left, with its four smoothed
\* positions and adjustments computed before any of its writes; Phase II starts
\* after the last pair and its sweeps update the nodes in place in row-major
\* order.
C20_SolveOrdering == [][SolveOrder]_vars

\* A second sweep is about to run on a lattice whose weighted and unweighted
\* nodes have both moved, all to finite positions.
C20_Witness ==
    /\ pc = "phase2"
    /\ l_sweep >= 1
    /\ Len(source_points) >= 2
    /\ \A n \in DOMAIN nodes.nodes :
          IsFinite(nodes.nodes[n].interp.x) /\ IsFinite(nodes.nodes[n].interp.y)
    /\ \E n \in DOMAIN nodes.nodes :
          FEq(nodes.nodes[n].weight, Zero) /\ nodes.nodes[n].interp # nodes.nodes[n].source
    /\ \E n \in DOMAIN nodes.nodes :
          ~FEq(nodes.nodes[n].weight, Zero) /\ nodes.nodes[n].interp # nodes.nodes[n].source

\* The position in the node vector of a node, from its own i and j.
PositionOf(node) == node.i * nodes.width + node.j + 1

\* The positions of the nodes get_adjacent_nodes returns for the current pair.
AdjacentPositions ==
    { PositionOf(get_adjacent_nodes(nodes, source_points[pair_idx])[k]) : k \in 1..4 }

\* The positions of the nodes whose interp a step changes.
MovedPositions == { n \in DOMAIN nodes.nodes : nodes'.nodes[n].interp # nodes.nodes[n].interp }

\* update_adjacent_node(p, k) with a closure that adds (1, 1) to interp writes
\* the node get_adjacent_nodes(p) returns at position k, and only that node
\* (the addition shows on a node that has a finite coordinate).
UpdateWritesAdjacent(p, k) ==
    \E after \in { update_adjacent_node(nodes, p, k, Coord(One, One)) } :
        \A n \in DOMAIN nodes.nodes :
            (after.nodes[n] # nodes.nodes[n])
                <=> (n = PositionOf(get_adjacent_nodes(nodes, p)[k])
                     /\ (IsFinite(nodes.nodes[n].interp.x) \/ IsFinite(nodes.nodes[n].interp.y)))

\* No step changes the lattice's shape, a node's source, i, j.
SolveKeepsSources ==
    pc \in {"seed", "phase1", "phase2", "finish"} =>
        /\ DOMAIN nodes'.nodes = DOMAIN nodes.nodes
        /\ \A n \in DOMAIN nodes.nodes :
              /\ nodes'.nodes[n].source = nodes.nodes[n].source
              /\ nodes'.nodes[n].i = nodes.nodes[n].i
              /\ nodes'.nodes[n].j = nodes.nodes[n].j

\* C21: a Phase I step changes interp only at the four adjacent nodes of its
\* pair's source point, update_adjacent_node(p, k) writing the k-th node of
\* get_adjacent_nodes(p); a Phase II step changes interp only at nodes of
\* weight 0; no step of the solve changes a node's source, i or j.
C21_PhaseFrames ==
    [][ /\ pc = "phase1" =>
              /\ MovedPositions \subseteq AdjacentPositions
              /\ Cardinality(AdjacentPositions) = 4
              /\ \A k \in 1..4 : UpdateWritesAdjacent(source_points[pair_idx], k)
        /\ pc = "phase2" =>
              \A n \in MovedPositions : FEq(nodes.nodes[n].weight, Zero)
        /\ SolveKeepsSources ]_vars

\* The first pair of a pass has been processed and has moved exactly four
\* nodes, to finite positions.
C21_Witness ==
    /\ pc = "phase1"
    /\ pair_idx = 2
    /\ k_iter = 0
    /\ Cardinality({ n \in DOMAIN nodes.nodes :
                        nodes.nodes[n].interp # nodes.nodes[n].source }) = 4
    /\ \A n \in DOMAIN nodes.nodes :
          IsFinite(nodes.nodes[n].interp.x) /\ IsFinite(nodes.nodes[n].interp.y)

\* The number of nodes of the lattice (rect_dim of Grid::interpolate).
RectDim == nodes.width * nodes.height

\* What the sweep of a step adds to its delta for node n.
MoveOf(n) ==
    FDiv(distance_sq(nodes.nodes[n].interp, nodes'.nodes[n].interp), FromInt(RectDim))

\* The largest move of a zero-weight node in the sweep of a step has a square
\* root below the threshold (a NaN move does not enter f64::max).
SweepIsStill ==
    \A n \in DOMAIN nodes.nodes :
        FEq(nodes.nodes[n].weight, Zero) =>
            (IsNaN(MoveOf(n)) \/ SqrtLt(MoveOf(n), ConvergenceThreshold))

MinOf(a, b) == IF a < b THEN a ELSE b

\* The sweeps of one pass, l_sweep being the index l of the sweep a step runs.
SweepCount(still) ==
    pc = "phase2" =>
        /\ l_sweep < RectDim
        /\ pc' = "phase2" => l_sweep' = l_sweep + 1
        /\ pc' # "phase2" <=> (l_sweep + 1 = RectDim \/ (l_sweep > 5 /\ still))
        /\ pc' # "phase2" => l_sweep + 1 >= MinOf(7, RectDim)

\* C22: Phase II terminates; a pass runs at most width*height sweeps and at
\* least min(7, width*height), and ends early only after a sweep of index
\* l > 5 whose own largest move of a zero-weight node, divided by
\* width*height, has a square root below 0.0001.
C22_PhaseIITerminates ==
    /\ [][SweepCount(SweepIsStill)]_<<pc, l_sweep>>
    /\ (pc = "phase2") ~> (pc # "phase2")

\* The seventh sweep of a pass is about to run on a lattice that allows more
\* than seven, with moved nodes at finite positions.
C22_Witness ==
    /\ pc = "phase2"
    /\ l_sweep = 6
    /\ RectDim > 7
    /\ \A n \in DOMAIN nodes.nodes :
          IsFinite(nodes.nodes[n].interp.x) /\ IsFinite(nodes.nodes[n].interp.y)
    /\ \E n \in DOMAIN nodes.nodes : nodes.nodes[n].interp # nodes.nodes[n].source

\* ux1 (vy1) lies in the cell, ux2 = resolution - ux1 completes it to the
\* resolution, and the denominator of u (v) is above zero.
OffsetInCell(a1, resolution) ==
    /\ FLe(Zero, a1)
    /\ FLe(a1, resolution)
    /\ FEq(FAdd(a1, FSub(resolution, a1)), resolution)
    /\ FGt(FAdd(FMul(a1, a1), FMul(FSub(resolution, a1), FSub(resolution, a1))), Zero)

\* The divisors of the pair loop's body on the pair (src_pt, _): the weights
\* of adj_nodes, the resolution, and the denominators of u and v.
PairDivisorsAboveZero(adj_nodes, resolution, src_pt) ==
    /\ \A k \in 1..4 : FGe(adj_nodes[k].weight, One)
    /\ FGt(resolution, Zero)
    /\ OffsetInCell(FSub(src_pt.x, adj_nodes[1].source.x), resolution)
    /\ OffsetInCell(FSub(src_pt.y, adj_nodes[3].source.y), resolution)

\* C23: Phase I never divides by zero on valid input (precision > 0, a source
\* extent of positive width and height): whenever a pair is about to be
\* updated, each of its four adjacent nodes has weight >= 1, 0 <= ux1 <=
\* resolution, 0 <= vy1 <= resolution, ux1 + ux2 = vy1 + vy2 = resolution, and
\* ux1^2 + ux2^2 and vy1^2 + vy2^2 are above zero.
C23_PhaseIDivisorsAboveZero ==
    (pc = "phase1" /\ FGt(precision, Zero) /\ PositiveExtent(from_points(source_points)))
        => PairDivisorsAboveZero(get_adjacent_nodes(nodes, source_points[pair_idx]),
                                 nodes.resolution, source_points[pair_idx])

\* The second pair of a pass is about to be updated, its source point
\* strictly inside a cell in x, after the first pair's update moved nodes.
C23_Witness ==
    /\ pc = "phase1"
    /\ pair_idx = 2
    /\ FGt(precision, Zero)
    /\ PositiveExtent(from_points(source_points))
    /\ FGt(FSub(source_points[2].x,
                get_adjacent_nodes(nodes, source_points[2])[1].source.x), Zero)
    /\ \E n \in DOMAIN nodes.nodes : nodes.nodes[n].interp # nodes.nodes[n].source

\* The source points whose containing cell has node n as a corner, by index
\* (a point listed twice counts twice).
PointsAround(n) ==
    { k \in 1..Len(source_points) :
        \E c \in 1..4 :
            AdjacentIndices(nodes, source_points[k])[c] = <<nodes.nodes[n].i, nodes.nodes[n].j>> }

\* Every weight is the number of source points around the node, and the
\* weights sum to 4 * N.
WeightsAreSeeded ==
    /\ \A n \in DOMAIN nodes.nodes :
          FEq(nodes.nodes[n].weight, FromInt(Cardinality(PointsAround(n))))
    /\ FEq(SumF([n \in DOMAIN nodes.nodes |-> nodes.nodes[n].weight], Len(nodes.nodes)),
           FromInt(4 * Len(source_points)))

\* A step of Phase I or Phase II leaves every weight as it is.
SolveKeepsWeights ==
    Solving =>
        /\ Len(nodes'.nodes) = Len(nodes.nodes)
        /\ \A n \in DOMAIN nodes.nodes : nodes'.nodes[n].weight = nodes.nodes[n].weight

\* C24: after the seeding loop and at every later point of the solve, each
\* node's weight is the number of source points (with multiplicity) whose
\* containing cell has the node as a corner, the weights sum to 4 * N, and no
\* step of Phase I or Phase II changes a weight.
C24_WeightSeeding ==
    /\ [](pc \in {"phase1", "phase2", "finish", "done"} => WeightsAreSeeded)
    /\ [][SolveKeepsWeights]_vars

\* A sweep has run on a lattice seeded by a source point listed twice.
C24_Witness ==
    /\ pc = "phase2"
    /\ l_sweep > 0
    /\ \E k \in 2..Len(source_points) : source_points[k] = source_points[1]
    /\ \E n \in DOMAIN nodes.nodes : FEq(nodes.nodes[n].weight, FromInt(2))

\* The 4-connected neighbours of (i, j): north, west, south, east.
Cardinal(i, j) == << <<i - 1, j>>, <<i, j - 1>>, <<i + 1, j>>, <<i, j + 1>> >>

\* Which of them exist in the lattice.
RealNeighbours(self, i, j) ==
    { c \in 1..4 : is_in_grid(self, Cardinal(i, j)[c][1], Cardinal(i, j)[c][2]) }

\* The interp of the real neighbours of (i, j), summed over one coordinate.
NeighbourSumX(self, i, j) ==
    SumF([c \in 1..4 |->
            IF c \in RealNeighbours(self, i, j)
            THEN get_node(self, Cardinal(i, j)[c][1], Cardinal(i, j)[c][2]).interp.x
            ELSE Zero], 4)

NeighbourSumY(self, i, j) ==
    SumF([c \in 1..4 |->
            IF c \in RealNeighbours(self, i, j)
            THEN get_node(self, Cardinal(i, j)[c][1], Cardinal(i, j)[c][2]).interp.y
            ELSE Zero], 4)

\* The phantom displacements of the missing neighbours: west -sx*res and east
\* +sx*res on x, north +sy*res and south -sy*res on y.
PhantomX(self, i, j, sx) ==
    FAdd(IF 2 \in RealNeighbours(self, i, j) THEN Zero ELSE FNeg(FMul(sx, self.resolution)),
         IF 4 \in RealNeighbours(self, i, j) THEN Zero ELSE FMul(sx, self.resolution))

PhantomY(self, i, j, sy) ==
    FAdd(IF 1 \in RealNeighbours(self, i, j) THEN Zero ELSE FMul(sy, self.resolution),
         IF 3 \in RealNeighbours(self, i, j) THEN Zero ELSE FNeg(FMul(sy, self.resolution)))

\* The sum of the real neighbours and of the phantom displacements, divided by
\* the number of real neighbours.
EdgeAverage(self, i, j, sx, sy) ==
    Coord(FDiv(FAdd(NeighbourSumX(self, i, j), PhantomX(self, i, j, sx)),
               FromInt(Cardinality(RealNeighbours(self, i, j)))),
          FDiv(FAdd(NeighbourSumY(self, i, j), PhantomY(self, i, j, sy)),
               FromInt(Cardinality(RealNeighbours(self, i, j)))))

EdgeSmoothing(self, i, j, sx, sy) ==
    /\ \A r \in SmoothedReads(self, i, j) : is_in_grid(self, r[1], r[2])
    /\ ~InteriorCase(self, i, j) =>
          /\ Cardinality(RealNeighbours(self, i, j)) >= 2
          /\ get_smoothed(self, i, j, sx, sy) = EdgeAverage(self, i, j, sx, sy)

\* C25: on every lattice of the solve, for every node outside the interior
\* case (1 < i < height-2 and 1 < j < width-2), get_smoothed is the sum of the
\* interp of the 4-connected neighbours that exist plus a phantom displacement
\* for each missing one (north +sy*res and south -sy*res on y, west -sx*res and
\* east +sx*res on x), divided by the number of real neighbours, which is at
\* least 2; in both cases get_smoothed reads in-grid nodes only.
C25_EdgeSmoothing ==
    pc \in {"phase1", "phase2", "finish"} =>
        \A n \in DOMAIN nodes.nodes :
            EdgeSmoothing(nodes, nodes.nodes[n].i, nodes.nodes[n].j,
                          scale_x(source_points, image_points),
                          scale_y(source_points, image_points))

\* A sweep has run on a lattice with moved nodes, all at finite positions, on
\* an input whose scales are not 1.
C25_Witness ==
    /\ pc = "phase2"
    /\ l_sweep > 0
    /\ ~FEq(scale_x(source_points, image_points), One)
    /\ \E n \in DOMAIN nodes.nodes : nodes.nodes[n].interp # nodes.nodes[n].source
    /\ \A n \in DOMAIN nodes.nodes :
          IsFinite(nodes.nodes[n].interp.x) /\ IsFinite(nodes.nodes[n].interp.y)

\* On the lattice self, the four adjacent nodes of src_pt all have weight 1 and
\* each has its interp at its smoothed position.
PairIsRelaxed(self, src_pt, sx, sy) ==
    \A k \in 1..4 :
        /\ FEq(get_adjacent_nodes(self, src_pt)[k].weight, One)
        /\ CoordEq(get_adjacent_nodes(self, src_pt)[k].interp,
                   SmoothedNodes(self, get_adjacent_nodes(self, src_pt), sx, sy)[k])

\* The bilinear interpolation of src_pt on the interp field of self.
InterpolatedOn(self, src_pt) ==
    Bilinear(get_adjacent_nodes(self, src_pt), self.resolution, src_pt)

PairIsFitted ==
    (pc = "phase1" /\ PairIsRelaxed(nodes, source_points[pair_idx],
                                    scale_x(source_points, image_points),
                                    scale_y(source_points, image_points)))
        => CoordEq(InterpolatedOn(nodes', source_points[pair_idx]), image_points[pair_idx])

\* C27: when the four adjacent nodes of a source point all have weight 1 and
\* each one's interp equals its smoothed position, then right after the
\* update of that pair the bilinear interpolation of the source point on the
\* interp field equals its image point.
C27_PhaseIFitsThePair == [][PairIsFitted]_vars

\* The lattice of the first pass before its first pair: every node in place.
LatticeInPlace ==
    [nodes EXCEPT !.nodes = [n \in DOMAIN nodes.nodes |->
        [nodes.nodes[n] EXCEPT !.interp = nodes.nodes[n].source]]]

\* The first pair of the first pass has been updated from a lattice on which
\* it was relaxed, its image point is not its source point, and the x scale
\* of the solve is not 1.
C27_Witness ==
    /\ pc = "phase1"
    /\ k_iter = 0
    /\ pair_idx = 2
    /\ ~FEq(scale_x(source_points, image_points), One)
    /\ PairIsRelaxed(LatticeInPlace, source_points[1],
                     scale_x(source_points, image_points),
                     scale_y(source_points, image_points))
    /\ ~CoordEq(image_points[1], source_points[1])
    /\ CoordEq(InterpolatedOn(nodes, source_points[1]), image_points[1])

-----------------------------------------------------------------------------
\* utils.rs and moving_points_unipolar.rs (feature moving-points-unipolar)

distance(p1, p2) == FSqrt(distance_sq(p1, p2))

\* The end of interpolate_line: p1 + (p2 - p1) * t
AlongLine(p1, p2, t) ==
    Coord(FAdd(p1.x, FMul(FSub(p2.x, p1.x), t)), FAdd(p1.y, FMul(FSub(p2.y, p1.y), t)))

interpolate_line(p1, p2, distance_along_line) ==
    IF FEq(distance(p1, p2), Zero) THEN p1
    ELSE IF FEq(distance(p1, p2), distance_along_line) THEN p2
    ELSE AlongLine(p1, p2, FDiv(distance_along_line, distance(p1, p2)))

\* v put into the sorted series after the values that are not above it.
Inserted(sorted, v) ==
    SelectSeq(sorted, LAMBDA w : FLe(w, v)) \o <<v>> \o SelectSeq(sorted, LAMBDA w : FGt(w, v))

\* series.sort_by(|a, b| a.partial_cmp(b).unwrap()) on finite values
RECURSIVE SortedSeries(_)
SortedSeries(series) ==
    IF Len(series) = 0 THEN <<>>
    ELSE Inserted(SortedSeries(SubSeq(series, 1, Len(series) - 1)), series[Len(series)])

\* The value median returns on the sorted series; on an empty series
\* `series[mid - 1]` is an index below zero and the call panics.
MedianOfSorted(sorted, mid) ==
    IF Len(sorted) % 2 = 0 THEN FDiv(FAdd(sorted[mid], sorted[mid + 1]), Two)
    ELSE sorted[mid + 1]

median(series) == MedianOfSorted(SortedSeries(series), Len(series) \div 2)

\* `durations.iter().position(|&t| t == 0.0)`, from 1; 0 for None
ReferencePosition(durations) ==
    IF \E k \in DOMAIN durations : FEq(durations[k], Zero)
    THEN CHOOSE k \in DOMAIN durations :
            /\ FEq(durations[k], Zero)
            /\ \A m \in 1..(k - 1) : ~FEq(durations[m], Zero)
    ELSE 0

\* pt_time: (point, duration, distance, speed) of the points whose duration is
\* not 0, in the order of source_points.
PtTime(source_points_, durations, ref_point) ==
    SelectSeq([k \in DOMAIN source_points_ |->
                  [pt    |-> source_points_[k],
                   t     |-> durations[k],
                   dist  |-> distance(ref_point, source_points_[k]),
                   speed |-> FDiv(distance(ref_point, source_points_[k]), durations[k])]],
              LAMBDA e : ~FEq(e.t, Zero))

\* ref_speed by the central tendency method
RefSpeed(pt_time, method) ==
    IF method = "Mean"
    THEN FDiv(SumF([k \in DOMAIN pt_time |-> pt_time[k].speed], Len(pt_time)),
              FromInt(Len(pt_time)))
    ELSE median([k \in DOMAIN pt_time |-> pt_time[k].speed])

\* The moved position of one entry of pt_time:
\* interpolate_line(ref_point, pt, d * dist) for d = 1. + (displacement - 1.) * factor
\* and displacement = ref_speed / speed.
MovedPoint(e, ref_point, ref_speed, factor) ==
    interpolate_line(ref_point, e.pt,
        FMul(FAdd(One, FMul(FSub(FDiv(ref_speed, e.speed), One), factor)), e.dist))

\* new_points.insert(idx, element), idx counted from 1 here
InsertAt(new_points, idx, element) ==
    SubSeq(new_points, 1, idx - 1) \o <<element>> \o SubSeq(new_points, idx, Len(new_points))

\* move_points from ref_speed on.
MovedFrom(pt_time, idx, ref_point, ref_speed, factor) ==
    [tag |-> "Ok",
     points |-> InsertAt([k \in DOMAIN pt_time |->
                             MovedPoint(pt_time[k], ref_point, ref_speed, factor)],
                         idx, ref_point),
     reference_point |-> ref_point,
     reference_speed |-> ref_speed]

\* move_points from pt_time on.
MovedAround(pt_time, idx, ref_point, factor, method) ==
    IF method = "Median" /\ Len(pt_time) = 0
    THEN [tag |-> "Panic"]
    ELSE MovedFrom(pt_time, idx, ref_point, RefSpeed(pt_time, method), factor)

move_points(source_points_, durations, factor, method) ==
    IF Len(source_points_) # Len(durations)
    THEN [tag |-> "Err", err |-> "InvalidInputDurationsLength"]
    ELSE IF ReferencePosition(durations) = 0
    THEN [tag |-> "Err", err |-> "NoReferencePoint"]
    ELSE MovedAround(PtTime(source_points_, durations,
                            source_points_[ReferencePosition(durations)]),
                     ReferencePosition(durations),
                     source_points_[ReferencePosition(durations)], factor, method)

-----------------------------------------------------------------------------
\* procrustes.rs

centroid(points) ==
    Coord(FDiv(SumF([k \in DOMAIN points |-> points[k].x], Len(points)), FromInt(Len(points))),
          FDiv(SumF([k \in DOMAIN points |-> points[k].y], Len(points)), FromInt(Len(points))))

center_points(points, c) ==
    [k \in DOMAIN points |-> Coord(FSub(points[k].x, c.x), FSub(points[k].y, c.y))]

\* The sum norm takes the square root of.
NormSq(points) ==
    SumF([k \in DOMAIN points |->
            FAdd(FMul(points[k].x, points[k].x), FMul(points[k].y, points[k].y))],
         Len(points))

norm(points) == FSqrt(NormSq(points))

scale_points(points, norm_) ==
    [k \in DOMAIN points |-> Coord(FDiv(points[k].x, norm_), FDiv(points[k].y, norm_))]

\* a and b of optimal_rotation
RotationA(points1, points2) ==
    SumF([k \in DOMAIN points1 |->
            FAdd(FMul(points1[k].x, points2[k].x), FMul(points1[k].y, points2[k].y))],
         Len(points1))

RotationB(points1, points2) ==
    SumF([k \in DOMAIN points1 |->
            FSub(FMul(points1[k].x, points2[k].y), FMul(points1[k].y, points2[k].x))],
         Len(points1))

\* An angle is kept as its cosine and sine. b.atan2(a) is the angle of the
\* direction (a, b), and 0 for a = b = 0 (h is the length of (a, b)).
AngleOf(a, b, h) ==
    IF FEq(h, Zero) THEN [cos |-> One, sin |-> Zero]
    ELSE [cos |-> FDiv(a, h), sin |-> FDiv(b, h)]

Atan2(b, a) == AngleOf(a, b, FSqrt(FAdd(FMul(a, a), FMul(b, b))))

\* -angle
Opposite(angle) == [cos |-> angle.cos, sin |-> FNeg(angle.sin)]

optimal_rotation(points1, points2) ==
    Atan2(RotationB(points1, points2), RotationA(points1, points2))

rotate_points(points, angle) ==
    [k \in DOMAIN points |->
        Coord(FSub(FMul(points[k].x, angle.cos), FMul(points[k].y, angle.sin)),
              FAdd(FMul(points[k].x, angle.sin), FMul(points[k].y, angle.cos)))]

reflect_points(points) == [k \in DOMAIN points |-> Coord(FNeg(points[k].x), points[k].y)]

procrustes_distance(points1, points2) ==
    SumF([k \in DOMAIN points1 |->
            FAdd(FMul(FSub(points1[k].x, points2[k].x), FSub(points1[k].x, points2[k].x)),
                 FMul(FSub(points1[k].y, points2[k].y), FSub(points1[k].y, points2[k].y)))],
         Len(points1))

\* The four candidates of procrustes on the scaled point sets: the points, the
\* error before its square root, the reflection flag and the angle of each.
Candidate(scaled1, from, angle, reflection) ==
    [points     |-> rotate_points(from, angle),
     error_sq   |-> procrustes_distance(scaled1, rotate_points(from, angle)),
     reflection |-> reflection,
     angle      |-> angle]

Candidates(scaled1, scaled2, angle) ==
    [original          |-> Candidate(scaled1, scaled2, angle, FALSE),
     flipped           |-> Candidate(scaled1, scaled2, Opposite(angle), FALSE),
     reflected         |-> Candidate(scaled1, reflect_points(scaled2), angle, TRUE),
     reflected_flipped |-> Candidate(scaled1, reflect_points(scaled2), Opposite(angle), TRUE)]

\* `let (final_rotated2, error, reflection, angle) = if .. else if .. else ..`
BestRotation(c) ==
    IF FLt(c.flipped.error_sq, c.original.error_sq)
       /\ FLt(c.flipped.error_sq, c.reflected.error_sq)
       /\ FLt(c.flipped.error_sq, c.reflected_flipped.error_sq)
    THEN c.flipped
    ELSE IF FLt(c.reflected.error_sq, c.original.error_sq)
            /\ FLt(c.reflected.error_sq, c.flipped.error_sq)
            /\ FLt(c.reflected.error_sq, c.reflected_flipped.error_sq)
    THEN c.reflected
    ELSE IF FLt(c.reflected_flipped.error_sq, c.original.error_sq)
            /\ FLt(c.reflected_flipped.error_sq, c.flipped.error_sq)
            /\ FLt(c.reflected_flipped.error_sq, c.reflected.error_sq)
    THEN c.reflected_flipped
    ELSE c.original

\* Final scaling and centering: p * norm1 + centroid1
Restored(points, norm1, centroid1) ==
    [k \in DOMAIN points |->
        Coord(FAdd(FMul(points[k].x, norm1), centroid1.x),
              FAdd(FMul(points[k].y, norm1), centroid1.y))]

\* procrustes from the choice of the rotation on; error_sq is the value whose
\* square root is returned as error.
Aligned(best, centroid1, centroid2, norm1, norm2) ==
    [tag         |-> "Ok",
     points      |-> Restored(best.points, norm1, centroid1),
     angle       |-> best.angle,
     centroid    |-> centroid1,
     error_sq    |-> best.error_sq,
     reflection  |-> best.reflection,
     scale       |-> FDiv(norm1, norm2),
     translation |-> Coord(FSub(centroid1.x, centroid2.x), FSub(centroid1.y, centroid2.y))]

\* The point sets centred and scaled to norm 1.
Normalized(points) ==
    scale_points(center_points(points, centroid(points)),
                 norm(center_points(points, centroid(points))))

procrustes(points1, points2) ==
    IF Len(points1) # Len(points2)
    THEN [tag |-> "Err", err |-> "ProcrustesInputLengthMismatch"]
    ELSE Aligned(BestRotation(Candidates(Normalized(points1), Normalized(points2),
                                         optimal_rotation(Normalized(points1),
                                                          Normalized(points2)))),
                 centroid(points1), centroid(points2),
                 norm(center_points(points1, centroid(points1))),
                 norm(center_points(points2, centroid(points2))))

-----------------------------------------------------------------------------
\* Calls of NodeSet::get_smoothed and of the free functions on bounded arguments

\* The 6 x 6 lattice NodeSet::new builds for the 2 x 2 input of scenario S6.
SmoothedLattice == NodeSetNew(S6Source(2), Two, <<>>)

\* self with the interp of the nodes at the positions `at` moved by d.
Displaced(self, at, d) ==
    [self EXCEPT !.nodes =
        [n \in DOMAIN self.nodes |->
            IF <<self.nodes[n].i, self.nodes[n].j>> \in at
            THEN [self.nodes[n] EXCEPT !.interp = Coord(FAdd(@.x, d.x), FAdd(@.y, d.y))]
            ELSE self.nodes[n]]]

\* Largest number of nodes displaced in an interp field.
MaxDisplaced == 2

\* Moves of a node: by less than a cell, by two cells, and by forty cells.
Displacements == { Coord(One, Zero), Coord(FromInt(-5), Q(5, 2)), Coord(FromInt(100), Zero) }

\* Interp fields around the interior-case node (i, j): the lattice as built,
\* with up to MaxDisplaced of the nodes get_smoothed reads moved.
InterpFields(i, j) ==
    { Displaced(SmoothedLattice, at, d) :
        at \in { a \in SUBSET SmoothedReads(SmoothedLattice, i, j) : Cardinality(a) <= MaxDisplaced },
        d \in Displacements }

SmoothedCalls ==
    { [fn |-> "get_smoothed", self |-> f, i |-> 2, j |-> 3, scale_x |-> One, scale_y |-> One] :
        f \in InterpFields(2, 3) }

\* Rectangles of non-negative width and height, and the empty rectangle.
RectOrigins == { FromInt(-1), Zero, Q(1, 2) }

RectExtents == { Zero, One, Q(3, 2) }

Rectangles ==
    { Rectangle2DNew(x, y, height, width) :
        x \in RectOrigins, y \in RectOrigins, height \in RectExtents, width \in RectExtents }
    \cup { new_empty }

AddedCoords == { FromInt(-2), Zero, Q(1, 2), One, FromInt(3) }

AddCalls ==
    { [fn |-> "add", self |-> r, pt |-> Coord(x, y)] :
        r \in Rectangles, x \in AddedCoords, y \in AddedCoords }

\* Longest point list given to from_points.
MaxRectPoints == 3

RectPoints == { Coord(FromInt(-2), One), Coord(Zero, Zero), Coord(Q(1, 2), FromInt(3)),
                Coord(One, FromInt(-2)), Coord(FromInt(3), Q(1, 2)) }

FromPointsCalls ==
    { [fn |-> "from_points", points |-> q] : q \in SeqsUpTo(RectPoints, MaxRectPoints) }

\* Longest list of points and of durations given to move_points.
MaxMoved == 3

\* Points at distances 3, 4 and 5 of each other.
MovedPool == { Coord(Zero, Zero), Coord(FromInt(3), Zero), Coord(Zero, FromInt(4)) }

DurationPool == { Zero, One, Two }

MovePointsCalls ==
    { [fn |-> "move_points", source_points |-> sp, durations |-> d,
       factor |-> f, method |-> m] :
        sp \in SeqsUpTo(MovedPool, MaxMoved), d \in SeqsUpTo(DurationPool, MaxMoved),
        f \in { One, Q(1, 2) }, m \in { "Mean", "Median" } }

\* Point sets for procrustes: a rectangle, a square on its corners and a
\* triangle, and their images under the maps below.
Shapes ==
    { << Coord(FromInt(3), FromInt(4)), Coord(FromInt(-3), FromInt(4)),
         Coord(FromInt(3), FromInt(-4)), Coord(FromInt(-3), FromInt(-4)) >>,
      << Coord(FromInt(5), Zero), Coord(Zero, FromInt(5)),
         Coord(FromInt(-5), Zero), Coord(Zero, FromInt(-5)) >>,
      << Coord(Zero, Zero), Coord(FromInt(6), Zero), Coord(FromInt(6), FromInt(8)) >> }

\* Maps of the plane: x' = a*x + b*y + e, y' = c*x + d*y + f.
Maps ==
    { [a |-> a, b |-> b, c |-> c, d |-> d, e |-> e, f |-> f] :
        a \in {One}, b \in {Zero}, c \in {Zero}, d \in {One}, e \in {Zero, Two}, f \in {Zero} }
    \cup { [a |-> FromInt(-1), b |-> Zero, c |-> Zero, d |-> One, e |-> Zero, f |-> Zero],
           [a |-> One, b |-> Zero, c |-> Zero, d |-> FromInt(-1), e |-> Zero, f |-> One],
           [a |-> Zero, b |-> FromInt(-1), c |-> One, d |-> Zero, e |-> Zero, f |-> Zero],
           [a |-> Q(3, 5), b |-> Q(-4, 5), c |-> Q(4, 5), d |-> Q(3, 5), e |-> Zero, f |-> Zero],
           [a |-> Q(6, 5), b |-> Q(8, 5), c |-> Q(-8, 5), d |-> Q(6, 5), e |-> One, f |-> Zero],
           [a |-> Q(-3, 5), b |-> Q(4, 5), c |-> Q(4, 5), d |-> Q(3, 5), e |-> Zero, f |-> Zero] }

Mapped(m, points) ==
    [k \in DOMAIN points |->
        Coord(FAdd(FAdd(FMul(m.a, points[k].x), FMul(m.b, points[k].y)), m.e),
              FAdd(FAdd(FMul(m.c, points[k].x), FMul(m.d, points[k].y)), m.f))]

\* The square roots procrustes takes on these point sets are exact.
ExactlyAligned(points1, points2) ==
    /\ HasExactSqrt(NormSq(center_points(points1, centroid(points1))))
    /\ HasExactSqrt(NormSq(center_points(points2, centroid(points2))))
    /\ NormSq(center_points(points1, centroid(points1))) # Zero
    /\ NormSq(center_points(points2, centroid(points2))) # Zero
    /\ HasExactSqrt(FAdd(FMul(RotationA(Normalized(points1), Normalized(points2)),
                              RotationA(Normalized(points1), Normalized(points2))),
                         FMul(RotationB(Normalized(points1), Normalized(points2)),
                              RotationB(Normalized(points1), Normalized(points2)))))

ProcrustesCalls ==
    { c \in { [fn |-> "procrustes", points1 |-> Mapped(m1, s), points2 |-> Mapped(m2, s)] :
                s \in Shapes, m1 \in Maps, m2 \in Maps } :
        ExactlyAligned(c.points1, c.points2) }
    \cup { [fn |-> "procrustes", points1 |-> s, points2 |-> SubSeq(s, 1, Len(s) - 1)] :
             s \in Shapes }

Calls == SmoothedCalls \cup AddCalls \cup FromPointsCalls \cup MovePointsCalls
         \cup ProcrustesCalls

CallInit ==
    /\ call \in Calls
    /\ pc = "call"
    /\ ret = NoResult
    /\ source_points = <<>>
    /\ image_points = <<>>
    /\ precision = One
    /\ n_iter = 0
    /\ bbox_opt = <<>>
    /\ nodes = <<>>
    /\ interpolated_points = <<>>
    /\ mae = Zero
    /\ r_squared = Zero
    /\ rmse_interpolated_image = [rmse |-> Zero, rmse_x |-> Zero, rmse_y |-> Zero]
    /\ rmse_interpolated_source = [rmse |-> Zero, rmse_x |-> Zero, rmse_y |-> Zero]
    /\ k_iter = 0
    /\ pair_idx = 1
    /\ l_sweep = 0

\* self.get_smoothed(i, j, scale_x, scale_y)
GetSmoothed ==
    /\ pc = "call"
    /\ call.fn = "get_smoothed"
    /\ ret' = [op |-> "get_smoothed", tag |-> "Ok",
               value |-> get_smoothed(call.self, call.i, call.j, call.scale_x, call.scale_y)]
    /\ pc' = "returned"
    /\ UNCHANGED <<call, source_points, image_points, precision, n_iter, bbox_opt, nodes,
                   interpolated_points, mae, r_squared, rmse_interpolated_image,
                   rmse_interpolated_source, k_iter, pair_idx, l_sweep>>

\* rect.add(&pt)
RectAdd ==
    /\ pc = "call"
    /\ call.fn = "add"
    /\ ret' = [op |-> "add", tag |-> "Ok", value |-> add(call.self, call.pt)]
    /\ pc' = "returned"
    /\ UNCHANGED <<call, source_points, image_points, precision, n_iter, bbox_opt, nodes,
                   interpolated_points, mae, r_squared, rmse_interpolated_image,
                   rmse_interpolated_source, k_iter, pair_idx, l_sweep>>

\* Rectangle2D::from_points(&points)
FromPoints ==
    /\ pc = "call"
    /\ call.fn = "from_points"
    /\ ret' = [op |-> "from_points", tag |-> "Ok", value |-> from_points(call.points)]
    /\ pc' = "returned"
    /\ UNCHANGED <<call, source_points, image_points, precision, n_iter, bbox_opt, nodes,
                   interpolated_points, mae, r_squared, rmse_interpolated_image,
                   rmse_interpolated_source, k_iter, pair_idx, l_sweep>>

\* The outcome r of move_points as the outcome of the call.
MoveCall(r) ==
    IF r.tag = "Ok"
    THEN [op |-> "move_points", tag |-> "Ok", points |-> r.points,
          reference_point |-> r.reference_point, reference_speed |-> r.reference_speed]
    ELSE IF r.tag = "Err"
    THEN [op |-> "move_points", tag |-> "Err", err |-> r.err]
    ELSE [op |-> "move_points", tag |-> "Panic"]

\* move_points(&source_points, &durations, factor, method)
MovePoints ==
    /\ pc = "call"
    /\ call.fn = "move_points"
    /\ ret' = MoveCall(move_points(call.source_points, call.durations, call.factor, call.method))
    /\ pc' = "returned"
    /\ UNCHANGED <<call, source_points, image_points, precision, n_iter, bbox_opt, nodes,
                   interpolated_points, mae, r_squared, rmse_interpolated_image,
                   rmse_interpolated_source, k_iter, pair_idx, l_sweep>>

\* The outcome r of procrustes as the outcome of the call.
ProcrustesCall(r) ==
    IF r.tag = "Ok"
    THEN [op |-> "procrustes", tag |-> "Ok", points |-> r.points, angle |-> r.angle,
          centroid |-> r.centroid, error_sq |-> r.error_sq, reflection |-> r.reflection,
          scale |-> r.scale, translation |-> r.translation]
    ELSE [op |-> "procrustes", tag |-> "Err", err |-> r.err]

\* procrustes(&points1, &points2)
Procrustes ==
    /\ pc = "call"
    /\ call.fn = "procrustes"
    /\ ret' = ProcrustesCall(procrustes(call.points1, call.points2))
    /\ pc' = "returned"
    /\ UNCHANGED <<call, source_points, image_points, precision, n_iter, bbox_opt, nodes,
                   interpolated_points, mae, r_squared, rmse_interpolated_image,
                   rmse_interpolated_source, k_iter, pair_idx, l_sweep>>

CallNext == GetSmoothed \/ RectAdd \/ FromPoints \/ MovePoints \/ Procrustes

CallSpec == CallInit /\ [][CallNext]_vars

\* A call of get_smoothed on an interior-case node has returned.
SmoothedInterior ==
    /\ pc = "returned"
    /\ ret.op = "get_smoothed"
    /\ InteriorCase(call.self, call.i, call.j)

\* The x (y) of the interp of the nodes a call of get_smoothed reads.
ReadXs == { get_node(call.self, r[1], r[2]).interp.x : r \in SmoothedReads(call.self, call.i, call.j) }

ReadYs == { get_node(call.self, r[1], r[2]).interp.y : r \in SmoothedReads(call.self, call.i, call.j) }

\* v lies between the least and the largest value of vs.
InRange(v, vs) == (\E lo \in vs : FLe(lo, v)) /\ (\E hi \in vs : FLe(v, hi))

\* C26 as stated: for every interp field and every interior-case node, each
\* coordinate of get_smoothed's result lies between the minimum and the maximum
\* of that coordinate over the nodes it reads.
C26_SmoothedIsConvexCombination ==
    SmoothedInterior => InRange(ret.value.x, ReadXs) /\ InRange(ret.value.y, ReadYs)

\* The offsets of the twelve neighbours of the interior case, and the weight
\* of each in the kernel: 8/20 at distance one, -2/20 on the diagonals, -1/20
\* two rows or two columns away.
KernelOffsets ==
    << <<-1, 0>>, <<1, 0>>, <<0, -1>>, <<0, 1>>,
       <<-1, -1>>, <<1, -1>>, <<1, 1>>, <<-1, 1>>,
       <<-2, 0>>, <<2, 0>>, <<0, -2>>, <<0, 2>> >>

KernelWeight(o) ==
    IF o[1] * o[1] + o[2] * o[2] = 1 THEN Q(8, 20)
    ELSE IF o[1] * o[1] + o[2] * o[2] = 2 THEN Q(-2, 20)
    ELSE Q(-1, 20)

KernelNode(k) ==
    get_node(call.self, call.i + KernelOffsets[k][1], call.j + KernelOffsets[k][2])

\* The weighted sum of the twelve neighbours of a call, one coordinate each.
AffineX == SumF([k \in 1..12 |-> FMul(KernelWeight(KernelOffsets[k]), KernelNode(k).interp.x)], 12)

AffineY == SumF([k \in 1..12 |-> FMul(KernelWeight(KernelOffsets[k]), KernelNode(k).interp.y)], 12)

\* v is at most 3/5 of the spread of vs below the least or above the largest
\* value of vs.
InWidenedRange(v, vs) ==
    \E lo \in vs, hi \in vs :
        /\ \A w \in vs : FLe(lo, w) /\ FLe(w, hi)
        /\ FLe(FSub(lo, FMul(Q(3, 5), FSub(hi, lo))), v)
        /\ FLe(v, FAdd(hi, FMul(Q(3, 5), FSub(hi, lo))))

\* C26 (amended): for every interp field and every interior-case node, each
\* coordinate of get_smoothed's result is the affine combination of that
\* coordinate over the twelve nodes it reads with weights 8/20 (the four
\* nearest), -2/20 (the four diagonal) and -1/20 (the four at distance two),
\* which sum to 1; it lies within 3/5 of the neighbours' spread of their range,
\* not always inside it.
C26_SmoothedIsAffineCombination ==
    SmoothedInterior =>
        /\ SumF([k \in 1..12 |-> KernelWeight(KernelOffsets[k])], 12) = One
        /\ { <<call.i + KernelOffsets[k][1], call.j + KernelOffsets[k][2]>> : k \in 1..12 }
              = SmoothedReads(call.self, call.i, call.j)
        /\ ret.value = Coord(AffineX, AffineY)
        /\ InWidenedRange(ret.value.x, ReadXs)
        /\ InWidenedRange(ret.value.y, ReadYs)

\* A call on an interior-case node has returned an x outside the range of the
\* x of the nodes it read.
C26_Witness == SmoothedInterior /\ ~InRange(ret.value.x, ReadXs)

\* The lesser and the larger of two finite values.
Lesser(a, b) == IF FLt(b, a) THEN b ELSE a

Larger(a, b) == IF FGt(b, a) THEN b ELSE a

\* r is the least rectangle that holds the extent of self and the point pt; its
\* origin differs from that of self only where pt is left of or below it, the
\* opposite edge then stays, and else the width and height do not shrink.
LeastAround(r, self, pt) ==
    /\ r.x = Lesser(self.x, pt.x)
    /\ max_x(r) = Larger(max_x(self), pt.x)
    /\ r.y = Lesser(self.y, pt.y)
    /\ max_y(r) = Larger(max_y(self), pt.y)
    /\ r.x # self.x => (FLt(pt.x, self.x) /\ max_x(r) = max_x(self))
    /\ r.y # self.y => (FLt(pt.y, self.y) /\ max_y(r) = max_y(self))
    /\ r.x = self.x => FGe(r.width, self.width)
    /\ r.y = self.y => FGe(r.height, self.height)

AddIsTight ==
    (pc = "returned" /\ ret.op = "add") =>
        IF IsNaN(call.self.width) \/ IsNaN(call.self.height)
        THEN ret.value = Rectangle2DNew(call.pt.x, call.pt.y, Zero, Zero)
        ELSE (FGe(call.self.width, Zero) /\ FGe(call.self.height, Zero))
                => LeastAround(ret.value, call.self, call.pt)

\* r holds every point of points and each of its four edges goes through one.
BoundsTightly(r, points) ==
    /\ \A k \in DOMAIN points : contains(as_bbox(r), points[k])
    /\ \E k \in DOMAIN points : r.x = points[k].x
    /\ \E k \in DOMAIN points : max_x(r) = points[k].x
    /\ \E k \in DOMAIN points : r.y = points[k].y
    /\ \E k \in DOMAIN points : max_y(r) = points[k].y

FromPointsIsTight ==
    (pc = "returned" /\ ret.op = "from_points" /\ Len(call.points) > 0)
        => BoundsTightly(ret.value, call.points)

\* C28: Rectangle2D::add(p) on a rectangle of non-negative width and height
\* yields the smallest rectangle containing the previous extent and p (the
\* origin moves only when p is left of or below it and the opposite edge then
\* stays, otherwise only width and height grow); on the empty (NaN) rectangle
\* it yields the zero-size rectangle at p; from_points returns the tight
\* bounding rectangle of its points.
C28_AddGrowsToTheLeastRectangle == AddIsTight /\ FromPointsIsTight

\* An add has moved the origin to the left and raised the top edge of a
\* rectangle of positive width and height.
C28_Witness ==
    /\ pc = "returned"
    /\ ret.op = "add"
    /\ FGt(call.self.width, Zero)
    /\ FGt(call.self.height, Zero)
    /\ FLt(ret.value.x, call.self.x)
    /\ FGt(max_y(ret.value), max_y(call.self))

\* The position source_points[k] is moved to, from the reference point and the
\* reference speed a call of move_points returned: itself when its duration is
\* 0, else the point of the line from the reference point through it at
\* (1 + (reference_speed / speed - 1) * factor) times its distance.
MovedPositionOf(k) ==
    IF FEq(call.durations[k], Zero) THEN call.source_points[k]
    ELSE MovedPoint([pt    |-> call.source_points[k],
                     t     |-> call.durations[k],
                     dist  |-> distance(ret.reference_point, call.source_points[k]),
                     speed |-> FDiv(distance(ret.reference_point, call.source_points[k]),
                                    call.durations[k])],
                    ret.reference_point, ret.reference_speed, call.factor)

\* C29: move_points on lists of equal length with at least one duration 0
\* returns one point per source point, points[k] being the moved position of
\* source_points[k] and every point of duration 0 unmoved at its own index; a
\* length mismatch gives InvalidInputDurationsLength and no duration 0 gives
\* NoReferencePoint.
C29_MovePointsKeepsIndexes ==
    (pc = "returned" /\ ret.op = "move_points") =>
        IF Len(call.source_points) # Len(call.durations)
        THEN ret.tag = "Err" /\ ret.err = "InvalidInputDurationsLength"
        ELSE IF \A k \in DOMAIN call.durations : ~FEq(call.durations[k], Zero)
        THEN ret.tag = "Err" /\ ret.err = "NoReferencePoint"
        ELSE /\ ret.tag = "Ok"
             /\ Len(ret.points) = Len(call.source_points)
             /\ \A k \in DOMAIN call.source_points : ret.points[k] = MovedPositionOf(k)

\* The four candidates of a call of procrustes.
CandidatesOfCall ==
    Candidates(Normalized(call.points1), Normalized(call.points2),
               optimal_rotation(Normalized(call.points1), Normalized(call.points2)))

CandidateNames == {"original", "flipped", "reflected", "reflected_flipped"}

\* C30: the points, the error, the angle and the reflection flag procrustes
\* returns are those of one of its four candidates whose error is the least of
\* the four, also when several candidates have equal errors.
C30_ProcrustesReturnsALeastError ==
    (pc = "returned" /\ ret.op = "procrustes" /\ ret.tag = "Ok") =>
        \E n \in CandidateNames :
            /\ \A m \in CandidateNames :
                  FLe(CandidatesOfCall[n].error_sq, CandidatesOfCall[m].error_sq)
            /\ ret.error_sq = CandidatesOfCall[n].error_sq
            /\ ret.angle = CandidatesOfCall[n].angle
            /\ ret.reflection = CandidatesOfCall[n].reflection
            /\ ret.points = Restored(CandidatesOfCall[n].points,
                                     norm(center_points(call.points1, centroid(call.points1))),
                                     centroid(call.points1))

=============================================================================
